---- MODULE Spec2Model ----
(***************************************************************************)
(* R1-Control: the accessory session (package aoa), the device manager     *)
(* (package device) with its Run loop, and the hotkey listener that feeds  *)
(* it push-to-talk edges.                                                  *)
(*                                                                         *)
(* Every Manager method that takes m.mu holds it from its first to its     *)
(* last statement, so each is one action; the states of this model are     *)
(* the states in which the Manager lock is free.  tryConnect works on its  *)
(* local session outside the lock and is split at its blocking points.     *)
(*                                                                         *)
(* Time: pttPressTime and lastActivity are kept as ages (time.Since of     *)
(* them), saturating where the code stops telling values apart.  An        *)
(* action that sleeps while holding the lock adds its sleeps to the        *)
(* millisecond ages.                                                       *)
(***************************************************************************)
EXTENDS Integers, Sequences, FiniteSets, TLC

(***************************************************************************)
(* Bounds of the model                                                     *)
(***************************************************************************)
\* milliseconds one Tick lets pass
TickMs == 50
\* minutes one IdleTick lets pass
IdleStepMin == 30

(***************************************************************************)
(* package aoa: protocol constants                                         *)
(***************************************************************************)
reqRegisterHID == 54
reqUnregisterHID == 55
reqSetHIDDesc == 56
reqSendHIDEvent == 57

DescSystemControl == 2
DescTouchScreen == 4

systemControlDescriptor ==
    << 5, 1, 9, 128, 161, 1, 21, 1, 37, 3, 9, 129, 9, 130, 9, 131,
       117, 8, 149, 1, 129, 0, 192 >>

touchScreenDescriptor ==
    << 5, 13, 9, 4, 161, 1, 9, 34, 161, 2,
       9, 66, 21, 0, 37, 1, 117, 1, 149, 1, 129, 2,
       9, 50, 129, 2,
       117, 6, 149, 1, 129, 3,
       5, 1, 9, 48, 21, 0, 38, 255, 127, 117, 16, 149, 1, 129, 2,
       9, 49, 129, 2,
       192, 192 >>

GetDescriptor(dt) ==
    IF dt = DescSystemControl THEN systemControlDescriptor
    ELSE IF dt = DescTouchScreen THEN touchScreenDescriptor
    ELSE << >>

\* uint16 arithmetic
U16(n) == n % 65536

\* mutant: the high byte of each coordinate goes first
TouchReportBigEndian(tip, x, y) ==
    << IF tip THEN 3 ELSE 0, (x \div 256) % 256, x % 256, (y \div 256) % 256, y % 256 >>

\* TouchReport(tip, x, y): flags, x low, x high, y low, y high
TouchReport(tip, x, y) ==
    << IF tip THEN 3 ELSE 0, x % 256, (x \div 256) % 256, y % 256, (y \div 256) % 256 >>

\* one vendor control transfer as d.dev.Control sees it
controlTransfer(bRequest, wValue, wIndex, data) ==
    [req |-> bRequest, wValue |-> wValue, wIndex |-> wIndex, data |-> data]

SendReportTo(hidID, report) == controlTransfer(reqSendHIDEvent, hidID, 0, report)

\* settle delays of RegisterDescriptor (ms)
registerSettleMs == 300

\* a freshly opened session: &Device{ctx, dev, nextHIDID: 1}
NewDevice == [nextHIDID |-> 1, registered |-> << >>, lastHIDID |-> 0]

\* mutant: the unregister requests go out last registered first
CloseTransfersReversed(d) ==
    [i \in 1..Len(d.registered) |->
        controlTransfer(reqUnregisterHID,
                        d.registered[Len(d.registered) + 1 - i], 0, << >>)]

\* Device.Close: one unregister request per registered id, in list order
CloseTransfers(d) ==
    [i \in 1..Len(d.registered) |->
        controlTransfer(reqUnregisterHID, d.registered[i], 0, << >>)]

(***************************************************************************)
(* package device: constants                                               *)
(***************************************************************************)
Disconnected == 0
Connected == 1
PTTActive == 2

powerDown == << 1 >>
powerUp == << 0 >>
wakeUp == << 3 >>

toggleThreshold == 300

\* sleep_after_minutes values the settings handler accepts (a subset that
\* keeps "never", the default and one more)
SleepChoices == {0, 30, 60}
\* age of lastActivity saturates at the largest threshold in use
IdleCap == 60

\* sleeps inside wake() after a delivered wake-up report (50 + 100 ms)
wakeSleepMs == 150
\* sleeps inside keepAwakePing's nudge (50 + 150 + 30 ms)
pingSleepMs == 230
\* pause between two touch-down reports of a swipe
swipeStepMs == 25
steps == 8
swipeY == 32590
tapXY == 32590

errNone == "nil"
errNoDevice == "no device connected"
errTransfer == "transfer failed"
errOpen == "not found"
errInvalid == "invalid sleep_after_minutes value"
errPersist == "failed to persist setting"

\* hotkey listener
debounceMs == 50
MaxTimers == 2      \* AfterFunc timers alive at once
MaxKeys == 2        \* key edges waiting for the listener

\* a session used on its own
MaxCalls == 4       \* single RegisterDescriptor calls before, and after, a burst
Burst == 65536 - 2  \* RegisterDescriptor calls made in one burst
Coords == {0, 100, 200, 256, 32767, 65535}
DescUnknown == 5    \* a DescriptorType that GetDescriptor does not know

\* the USB bus as aoa.Open finds it
R1VendorID == 3725      \* 0x0e8d
R1ProductID == 8964     \* 0x2304
MaxAttached == 3        \* USB devices attached at a time
\* the kinds of device on the bus: two R1 with readable serials, an R1 whose
\* serial cannot be read (SerialNumber returns ""), and a device that is no R1
Attachable ==
    { [vendor |-> R1VendorID, product |-> R1ProductID, serial |-> "A"],
      [vendor |-> R1VendorID, product |-> R1ProductID, serial |-> "B"],
      [vendor |-> R1VendorID, product |-> R1ProductID, serial |-> ""],
      [vendor |-> R1VendorID, product |-> 0, serial |-> "A"] }
\* the serial argument of aoa.Open
Filters == {"", "A", "B"}

Min(a, b) == IF a < b THEN a ELSE b

VARIABLES
    state,              \* m.state
    dev,                \* m.dev: << >> is nil, << d >> points to session d
    pttHIDID,           \* m.pttHIDID
    touchHIDID,         \* m.touchHIDID
    pttToggled,         \* m.pttToggled
    pressAge,           \* time.Since(m.pttPressTime) in ms, saturating at toggleThreshold
    swipeLeft,          \* m.swipeLeft
    keepAwake,          \* m.keepAwake
    sleepAfterMinutes,  \* m.sleepAfterMinutes
    idleAge,            \* time.Since(m.lastActivity) in minutes, saturating at IdleCap
    sleeping,           \* m.sleeping
    runpc,              \* where the Run goroutine is
    cdev,               \* tryConnect's local dev (<< >> before Open)
    pttID,              \* tryConnect's local pttID
    touchID,            \* tryConnect's local touchID
    settle,             \* ms slept so far in RegisterDescriptor's settle delay
    cancelled,          \* Run's ctx was cancelled
    closed,             \* Manager.Close was called by OnQuit
    handles,            \* sessions opened and not yet closed
    isLinux,            \* listen: runtime.GOOS == "linux"
    keyHeld,            \* the PTT key is physically down
    keys,               \* key edges the listener has not yet received
    hkpc,               \* where the PTT listen goroutine is
    debounceTimer,      \* listen's debounceTimer: 0 is nil, t points to timer t
    timers,             \* the timers made by time.AfterFunc and their goroutines
    session,            \* an aoa.Device used on its own: its fields and its handle
    calls,              \* RegisterDescriptor calls made on session so far
    sout,               \* what the latest operation on session did
    mu,                 \* m.mu: "" when free, else the operation holding it
    waiting,            \* operations called and blocked in m.mu.Lock()
    cfg,                \* the Config in memory: KeepAwake, SleepAfterMinutes (what /status reports)
    reqs,               \* keep-awake updates in flight: 0 is the tray callback, 1.. are HTTP handlers
    wire,               \* transfers on the installed session: whose went last, what each operation has left
    attached,           \* the USB devices on the bus, in enumeration order
    opened,             \* what the latest aoa.Open on that bus did
    lastEdge,           \* the callback listen or a timer delivered last
    out                 \* what the latest operation did

mgrVars == << state, dev, pttHIDID, touchHIDID, pttToggled, pressAge, swipeLeft,
              keepAwake, sleepAfterMinutes, idleAge, sleeping >>
runVars == << runpc, cdev, pttID, touchID, settle >>
quitVars == << cancelled, closed >>
hkVars == << isLinux, keyHeld, keys, hkpc, debounceTimer, timers >>
sessVars == << session, calls, sout >>
lockVars == << mu, waiting, wire >>
usbVars == << attached, opened >>
cfgVars == << cfg, reqs >>
auxVars == << sessVars, lockVars, usbVars, cfgVars, lastEdge >>
vars == << mgrVars, runVars, quitVars, handles, hkVars, auxVars, out >>

\* what an operation found when it took the lock
Pre == [state |-> state, hasDev |-> dev # << >>, toggled |-> pttToggled,
        long |-> pressAge >= toggleThreshold, left |-> swipeLeft]

\* progress through the scenario "press, short release, press, short release"
\* made by consecutive operations: 1 after a delivered PTTDown from Connected
\* with the toggle off, 2 after a short delivered PTTUp, 3 after the next
\* delivered PTTDown, 4 after the next short delivered PTTUp; any other
\* operation starts over
Chain(op, err) ==
    IF op = "PTTDown" /\ err = errNone /\ state = Connected /\ ~pttToggled THEN 1
    ELSE IF op = "PTTUp" /\ err = errNone /\ pressAge < toggleThreshold
            /\ out.chain \in {1, 3} THEN out.chain + 1
    ELSE IF op = "PTTDown" /\ err = errNone /\ out.chain = 2 THEN 3
    ELSE 0

\* the record an operation leaves in out: its name, its result, the control
\* transfers it issued in order, the positions in sent of those that failed,
\* the observer notifications it made, and the history the claims speak of
Out(op, err, sent, failed, notes) ==
    [op |-> op, err |-> err, sent |-> sent, failed |-> failed, notes |-> notes,
     pre |-> Pre,
     chain |-> Chain(op, err),
     swipesDev |-> IF op = "Swipe" /\ dev # << >>
                   THEN 1 - out.swipesDev ELSE out.swipesDev]

\* a step that is no operation of the Manager or the session (time passing,
\* a ticker firing, a sleep ending) leaves nothing in out but the history
Quiet == out' = [op |-> "", err |-> errNone, sent |-> << >>, failed |-> {},
                 notes |-> << >>, pre |-> Pre,
                 chain |-> out.chain, swipesDev |-> out.swipesDev]

\* ms pass while the caller holds the lock
Later(age, ms, cap) == Min(age + ms, cap)

\* a timer that is not set, or was stopped, or whose callback has returned
idleTimer == [pc |-> "idle", age |-> 0]

\* NewManager, then go devMgr.Run(ctx); the hotkey is registered, no key pressed
Constructed ==
    /\ state = Disconnected
    /\ dev = << >>
    /\ pttHIDID = 0
    /\ touchHIDID = 0
    /\ pttToggled = FALSE
    /\ pressAge = toggleThreshold
    /\ swipeLeft = TRUE
    /\ keepAwake = TRUE
    /\ sleepAfterMinutes = 60
    /\ idleAge = 0
    /\ sleeping = FALSE
    /\ runpc = "open"
    /\ cdev = << >>
    /\ pttID = 0
    /\ touchID = 0
    /\ settle = 0
    /\ cancelled = FALSE
    /\ closed = FALSE
    /\ handles = 0
    /\ out = [op |-> "NewManager", err |-> errNone, sent |-> << >>, failed |-> {},
              notes |-> << >>,
              pre |-> [state |-> Disconnected, hasDev |-> FALSE, toggled |-> FALSE,
                       long |-> TRUE, left |-> TRUE],
              chain |-> 0, swipesDev |-> 0]
    /\ keyHeld = FALSE
    /\ keys = << >>
    /\ hkpc = "select"
    /\ debounceTimer = 0
    /\ timers = [t \in 1..MaxTimers |-> idleTimer]
    /\ session = [d |-> NewDevice, open |-> TRUE]
    /\ calls = 0
    /\ sout = [op |-> "Open", err |-> errNone, id |-> 0, sent |-> << >>,
               failed |-> {}, pre |-> << >>, arg |-> << >>]
    /\ mu = ""
    /\ waiting = {}
    /\ wire = [last |-> "", left |-> << >>]
    /\ cfg = [KeepAwake |-> TRUE, SleepAfterMinutes |-> 60]
    /\ reqs = << >>
    /\ attached = << >>
    /\ opened = [op |-> "", serial |-> "", devs |-> << >>, dev |-> 0,
                 closed |-> {}, err |-> errNone]
    /\ lastEdge = "up"

Init == Constructed /\ isLinux = TRUE

(***************************************************************************)
(* Time                                                                    *)
(***************************************************************************)
\* the settle delay of RegisterDescriptor runs outside the Manager lock:
\* ms that pass anywhere count towards it while tryConnect sleeps in it
SettleAfter(ms) ==
    IF runpc \in {"settlePTT", "settleTouch"}
    THEN Later(settle, ms, registerSettleMs) ELSE settle

\* some milliseconds pass with nothing else happening
Tick ==
    /\ pressAge' = Later(pressAge, TickMs, toggleThreshold)
    /\ settle' = SettleAfter(TickMs)
    /\ timers' = [t \in DOMAIN timers |->
                    IF timers[t].pc = "armed"
                    THEN [timers[t] EXCEPT !.age = Later(@, TickMs, debounceMs)]
                    ELSE timers[t]]
    /\ << pressAge', settle', timers' >> # << pressAge, settle, timers >>
    /\ UNCHANGED << state, dev, pttHIDID, touchHIDID, pttToggled, swipeLeft,
                    keepAwake, sleepAfterMinutes, idleAge, sleeping,
                    runpc, cdev, pttID, touchID, quitVars, auxVars, isLinux, keyHeld, keys, hkpc,
                    debounceTimer, handles >>
    /\ Quiet

\* some minutes pass with nothing else happening
IdleTick ==
    /\ idleAge < IdleCap
    /\ idleAge' = Later(idleAge, IdleStepMin, IdleCap)
    /\ pressAge' = toggleThreshold
    /\ settle' = SettleAfter(registerSettleMs)
    /\ UNCHANGED << state, dev, pttHIDID, touchHIDID, pttToggled, swipeLeft,
                    keepAwake, sleepAfterMinutes, sleeping,
                    runpc, cdev, pttID, touchID, quitVars, auxVars, hkVars, handles >>
    /\ Quiet

(***************************************************************************)
(* Manager: settings                                                       *)
(***************************************************************************)
\* mutant: new settings also drop the PTT toggle
SetKeepAwakeDropsToggle(enabled, minutes) ==
    /\ keepAwake' = enabled
    /\ sleepAfterMinutes' = minutes
    /\ idleAge' = 0
    /\ sleeping' = FALSE
    /\ pttToggled' = FALSE
    /\ out' = Out("SetKeepAwake", errNone, << >>, {}, << >>)
    /\ UNCHANGED << state, dev, pttHIDID, touchHIDID, pressAge,
                    swipeLeft, runVars, quitVars, auxVars, hkVars, handles >>

\* the assignments of Manager.SetKeepAwake under m.mu
applyKeepAwake(enabled, minutes) ==
    /\ keepAwake' = enabled
    /\ sleepAfterMinutes' = minutes
    /\ idleAge' = 0
    /\ sleeping' = FALSE
    /\ out' = Out("SetKeepAwake", errNone, << >>, {}, << >>)
    /\ UNCHANGED << state, dev, pttHIDID, touchHIDID, pttToggled, pressAge,
                    swipeLeft, runVars, quitVars, sessVars, lockVars, usbVars,
                    lastEdge, hkVars, handles >>

SetKeepAwake(enabled, minutes) ==
    /\ applyKeepAwake(enabled, minutes)
    /\ UNCHANGED cfgVars

\* mutant: the activity is recorded but the sleeping flag is left alone
touchActivityKeepsSleeping ==
    /\ idleAge' = 0
    /\ UNCHANGED sleeping

\* touchActivity: the idle timer restarts
touchActivity ==
    /\ idleAge' = 0
    /\ sleeping' = FALSE

(***************************************************************************)
(* Manager: PTT toggle/hold                                                *)
(***************************************************************************)
\* wake(): w = 0 the wake-up report fails (wake returns), w = 1 it is delivered
\* and the release report fails (ignored), w = 2 both are delivered
WakeTransfers(w) ==
    IF w = 0
    THEN << SendReportTo(pttHIDID, wakeUp) >>
    ELSE << SendReportTo(pttHIDID, wakeUp), SendReportTo(pttHIDID, powerUp) >>

WakeFailed(w) == IF w = 2 THEN {} ELSE {w + 1}

WakeMs(w) == IF w = 0 THEN 0 ELSE wakeSleepMs

\* mutant: the session is dropped but the state is left as it was
handleErrorKeepsState(op, sent, failed) ==
    /\ dev' = << >>
    /\ handles' = IF dev # << >> THEN handles - 1 ELSE handles
    /\ UNCHANGED state
    /\ pttToggled' = FALSE
    /\ out' = Out(op, errTransfer,
                  IF dev # << >> THEN sent \o CloseTransfers(dev[1]) ELSE sent,
                  failed, << Disconnected >>)

\* mutant: the observer is not told
handleErrorSilent(op, sent, failed) ==
    /\ dev' = << >>
    /\ handles' = IF dev # << >> THEN handles - 1 ELSE handles
    /\ state' = Disconnected
    /\ pttToggled' = FALSE
    /\ out' = Out(op, errTransfer,
                  IF dev # << >> THEN sent \o CloseTransfers(dev[1]) ELSE sent,
                  failed, << >>)

\* handleError, given the caller's transfers so far, the last of which failed
handleError(op, sent, failed) ==
    /\ dev' = << >>
    /\ handles' = IF dev # << >> THEN handles - 1 ELSE handles
    /\ state' = Disconnected
    /\ pttToggled' = FALSE
    /\ out' = Out(op, errTransfer,
                  IF dev # << >> THEN sent \o CloseTransfers(dev[1]) ELSE sent,
                  failed, << Disconnected >>)

\* mutant: the call without a session still records the press
NoDeviceRecordsPress(op) ==
    /\ dev = << >>
    /\ out' = Out(op, errNoDevice, << >>, {}, << >>)
    /\ pressAge' = 0
    /\ UNCHANGED << state, dev, pttHIDID, touchHIDID, pttToggled, swipeLeft,
                    keepAwake, sleepAfterMinutes, idleAge, sleeping, runVars, handles >>

\* the caller returns "no device connected"
NoDevice(op) ==
    /\ dev = << >>
    /\ out' = Out(op, errNoDevice, << >>, {}, << >>)
    /\ UNCHANGED << mgrVars, runVars, handles >>

\* mutant: a press with the toggle on sends the key-down once more
PTTDownResends ==
    \/ NoDevice("PTTDown")
    \/ /\ dev # << >>
       /\ touchActivity
       /\ \E w \in 0..2, ok \in BOOLEAN :
            LET sent == Append(WakeTransfers(w), SendReportTo(pttHIDID, powerDown))
            IN /\ pressAge' = Later(0, WakeMs(w), toggleThreshold)
               /\ settle' = SettleAfter(WakeMs(w))
               /\ IF ok
                  THEN /\ state' = PTTActive
                       /\ out' = Out("PTTDown", errNone, sent, WakeFailed(w),
                                     << PTTActive >>)
                       /\ UNCHANGED << dev, pttToggled, handles >>
                  ELSE handleError("PTTDown", sent, WakeFailed(w) \cup {Len(sent)})
       /\ UNCHANGED << pttHIDID, touchHIDID, swipeLeft, keepAwake,
                       sleepAfterMinutes, runpc, cdev, pttID, touchID >>

PTTDown ==
    \/ NoDevice("PTTDown")
    \/ /\ dev # << >>
       /\ touchActivity
       /\ IF pttToggled
          THEN /\ pressAge' = 0
               /\ out' = Out("PTTDown", errNone, << >>, {}, << >>)
               /\ UNCHANGED << state, dev, pttToggled, handles, settle >>
          ELSE \E w \in 0..2, ok \in BOOLEAN :
                 LET sent == Append(WakeTransfers(w),
                                    SendReportTo(pttHIDID, powerDown))
                 IN /\ pressAge' = Later(0, WakeMs(w), toggleThreshold)
                    /\ settle' = SettleAfter(WakeMs(w))
                    /\ IF ok
                       THEN /\ state' = PTTActive
                            /\ out' = Out("PTTDown", errNone, sent, WakeFailed(w),
                                          << PTTActive >>)
                            /\ UNCHANGED << dev, pttToggled, handles >>
                       ELSE handleError("PTTDown", sent,
                                        WakeFailed(w) \cup {Len(sent)})
       /\ UNCHANGED << pttHIDID, touchHIDID, swipeLeft, keepAwake,
                       sleepAfterMinutes, runpc, cdev, pttID, touchID >>

\* mutant: the release sets the state back without telling the observer
ReleaseSilent(ok) ==
    LET sent == << SendReportTo(pttHIDID, powerUp) >>
    IN IF ok
       THEN /\ state' = Connected
            /\ pttToggled' = FALSE
            /\ out' = Out("PTTUp", errNone, sent, {}, << >>)
            /\ UNCHANGED << dev, handles >>
       ELSE handleError("PTTUp", sent, {1})

\* mutant: the release leaves the toggle flag set
ReleaseKeepsToggle(ok) ==
    LET sent == << SendReportTo(pttHIDID, powerUp) >>
    IN IF ok
       THEN /\ state' = Connected
            /\ UNCHANGED pttToggled
            /\ out' = Out("PTTUp", errNone, sent, {}, << Connected >>)
            /\ UNCHANGED << dev, handles >>
       ELSE handleError("PTTUp", sent, {1})

\* mutant: the release report is sent but the state is not set back
ReleaseKeepsState(ok) ==
    LET sent == << SendReportTo(pttHIDID, powerUp) >>
    IN IF ok
       THEN /\ UNCHANGED state
            /\ pttToggled' = FALSE
            /\ out' = Out("PTTUp", errNone, sent, {}, << Connected >>)
            /\ UNCHANGED << dev, handles >>
       ELSE handleError("PTTUp", sent, {1})

\* mutant: the release report is sent twice
ReleaseTwice(ok) ==
    LET sent == << SendReportTo(pttHIDID, powerUp), SendReportTo(pttHIDID, powerUp) >>
    IN IF ok
       THEN /\ state' = Connected
            /\ pttToggled' = FALSE
            /\ out' = Out("PTTUp", errNone, sent, {}, << Connected >>)
            /\ UNCHANGED << dev, handles >>
       ELSE handleError("PTTUp", sent, {1})

\* PTTUp's release: the toggle flag is cleared, then the release report sent
Release(ok) ==
    LET sent == << SendReportTo(pttHIDID, powerUp) >>
    IN IF ok
       THEN /\ state' = Connected
            /\ pttToggled' = FALSE
            /\ out' = Out("PTTUp", errNone, sent, {}, << Connected >>)
            /\ UNCHANGED << dev, handles >>
       ELSE handleError("PTTUp", sent, {1})

PTTUp ==
    \/ NoDevice("PTTUp")
    \/ /\ dev # << >>
       /\ IF pressAge < toggleThreshold
          THEN IF pttToggled
               THEN \E ok \in BOOLEAN : Release(ok)
               ELSE /\ pttToggled' = TRUE
                    /\ out' = Out("PTTUp", errNone, << >>, {}, << >>)
                    /\ UNCHANGED << state, dev, handles >>
          ELSE \E ok \in BOOLEAN : Release(ok)
       /\ UNCHANGED << pttHIDID, touchHIDID, pressAge, swipeLeft, keepAwake,
                       sleepAfterMinutes, idleAge, sleeping, runVars >>

(***************************************************************************)
(* Manager: swipe                                                          *)
(***************************************************************************)
leftStartX == 27000
leftEndX == 5000

\* mutant: the sweep always starts on the right
SwipeStartXIgnoresFlag(left) == leftStartX

\* where the sweep starts and ends, by direction
SwipeStartX(left) == IF left THEN leftStartX ELSE leftEndX
SwipeEndX(left) == IF left THEN leftEndX ELSE leftStartX

\* mutant: the interpolation starts one step in
SwipeXFromOne(startX, endX, i) ==
    U16((steps * startX + (i + 1) * (endX - startX)) \div steps)

\* x of the i-th touch-down report: uint16(float64(startX) + i/8 * (endX - startX))
SwipeX(startX, endX, i) == U16((steps * startX + i * (endX - startX)) \div steps)

\* the touch reports of one gesture in the order Swipe sends them:
\* steps + 1 touch-downs, then the lift at endX
SwipeReport(startX, endX, k) ==
    IF k <= steps + 1
    THEN TouchReport(TRUE, SwipeX(startX, endX, k - 1), swipeY)
    ELSE TouchReport(FALSE, endX, swipeY)

\* Swipe sends reports 1..n of the gesture
SwipeTransfers(startX, endX, n) ==
    [k \in 1..n |-> SendReportTo(touchHIDID, SwipeReport(startX, endX, k))]

\* mutant: the gesture goes on after a failed report
SwipeSendsAll(failAt) == steps + 2

\* how many reports of the gesture Swipe sends when the failAt-th is the first
\* to fail (failAt = steps + 3: none fails)
SwipeSends(failAt) == Min(failAt, steps + 2)

Swipe ==
    \/ NoDevice("Swipe")
    \/ /\ dev # << >>
       /\ touchActivity
       /\ swipeLeft' = ~swipeLeft
       /\ \E w \in 0..2, failAt \in 1..(steps + 3) :
            LET startX == SwipeStartX(swipeLeft)
                endX == SwipeEndX(swipeLeft)
                wk == WakeTransfers(w)
                sent == wk \o SwipeTransfers(startX, endX, SwipeSends(failAt))
                ms == WakeMs(w) + swipeStepMs * Min(failAt - 1, steps)
            IN /\ pressAge' = Later(pressAge, ms, toggleThreshold)
               /\ settle' = SettleAfter(ms)
               /\ IF failAt = steps + 3
                  THEN /\ out' = Out("Swipe", errNone, sent, WakeFailed(w), << >>)
                       /\ UNCHANGED << state, dev, pttToggled, handles >>
                  ELSE handleError("Swipe", sent, WakeFailed(w) \cup {Len(wk) + failAt})
       /\ UNCHANGED << pttHIDID, touchHIDID, keepAwake, sleepAfterMinutes,
                       runpc, cdev, pttID, touchID >>

(***************************************************************************)
(* Manager: keep-awake watchdog                                            *)
(***************************************************************************)
\* mutant: the tap goes out before the wake-up
PingTransfersTapFirst ==
    << SendReportTo(touchHIDID, TouchReport(TRUE, tapXY, tapXY)),
       SendReportTo(touchHIDID, TouchReport(FALSE, tapXY, tapXY)),
       SendReportTo(pttHIDID, wakeUp), SendReportTo(pttHIDID, powerUp) >>

PingTransfers ==
    << SendReportTo(pttHIDID, wakeUp), SendReportTo(pttHIDID, powerUp),
       SendReportTo(touchHIDID, TouchReport(TRUE, tapXY, tapXY)),
       SendReportTo(touchHIDID, TouchReport(FALSE, tapXY, tapXY)) >>

\* the idle timer has expired (0 = never sleep)
IdleExpired == sleepAfterMinutes > 0 /\ idleAge >= sleepAfterMinutes

\* mutant: the ping goes out in any state that has a session
keepAwakePingAnyState ==
    /\ IF dev = << >> \/ ~keepAwake
       THEN /\ out' = Out("keepAwakePing", errNone, << >>, {}, << >>)
            /\ UNCHANGED << sleeping, pressAge, settle >>
       ELSE IF IdleExpired
       THEN /\ sleeping' = TRUE
            /\ out' = Out(IF sleeping THEN "keepAwakePing" ELSE "keepAwakePing+log",
                          errNone, << >>, {}, << >>)
            /\ UNCHANGED << pressAge, settle >>
       ELSE /\ out' = Out("keepAwakePing", errNone, PingTransfers, {}, << >>)
            /\ pressAge' = Later(pressAge, pingSleepMs, toggleThreshold)
            /\ settle' = SettleAfter(pingSleepMs)
            /\ UNCHANGED sleeping
    /\ UNCHANGED << state, dev, pttHIDID, touchHIDID, pttToggled, swipeLeft,
                    keepAwake, sleepAfterMinutes, idleAge, handles >>

\* mutant: the sleep transition is logged on every tick of the idle period
keepAwakePingLogsAlways ==
    /\ IF dev = << >> \/ state # Connected \/ ~keepAwake
       THEN /\ out' = Out("keepAwakePing", errNone, << >>, {}, << >>)
            /\ UNCHANGED << sleeping, pressAge, settle >>
       ELSE IF IdleExpired
       THEN /\ sleeping' = TRUE
            /\ out' = Out("keepAwakePing+log", errNone, << >>, {}, << >>)
            /\ UNCHANGED << pressAge, settle >>
       ELSE /\ out' = Out("keepAwakePing", errNone, PingTransfers, {}, << >>)
            /\ pressAge' = Later(pressAge, pingSleepMs, toggleThreshold)
            /\ settle' = SettleAfter(pingSleepMs)
            /\ UNCHANGED sleeping
    /\ UNCHANGED << state, dev, pttHIDID, touchHIDID, pttToggled, swipeLeft,
                    keepAwake, sleepAfterMinutes, idleAge, handles >>

\* keepAwakePing; the op name tells whether it logged the sleep transition
keepAwakePing ==
    /\ IF dev = << >> \/ state # Connected \/ ~keepAwake
       THEN /\ out' = Out("keepAwakePing", errNone, << >>, {}, << >>)
            /\ UNCHANGED << sleeping, pressAge, settle >>
       ELSE IF IdleExpired
       THEN /\ sleeping' = TRUE
            /\ out' = Out(IF sleeping THEN "keepAwakePing" ELSE "keepAwakePing+log",
                          errNone, << >>, {}, << >>)
            /\ UNCHANGED << pressAge, settle >>
       ELSE /\ \E failed \in SUBSET (1..Len(PingTransfers)) :
                 out' = Out("keepAwakePing", errNone, PingTransfers, failed, << >>)
            /\ pressAge' = Later(pressAge, pingSleepMs, toggleThreshold)
            /\ settle' = SettleAfter(pingSleepMs)
            /\ UNCHANGED sleeping
    /\ UNCHANGED << state, dev, pttHIDID, touchHIDID, pttToggled, swipeLeft,
                    keepAwake, sleepAfterMinutes, idleAge, handles >>

(***************************************************************************)
(* Manager: shutdown                                                       *)
(***************************************************************************)
\* mutant: Close drops the session and leaves the state as it was
CloseKeepsState ==
    /\ dev' = << >>
    /\ handles' = IF dev # << >> THEN handles - 1 ELSE handles
    /\ UNCHANGED state
    /\ pttToggled' = FALSE
    /\ out' = Out("Close", errNone,
                  IF dev = << >> THEN << >>
                  ELSE (IF state = PTTActive
                        THEN << SendReportTo(pttHIDID, powerUp) >> ELSE << >>)
                       \o CloseTransfers(dev[1]),
                  {}, << >>)
    /\ UNCHANGED << pttHIDID, touchHIDID, pressAge, swipeLeft, keepAwake,
                    sleepAfterMinutes, idleAge, sleeping, runVars >>

Close ==
    /\ dev' = << >>
    /\ handles' = IF dev # << >> THEN handles - 1 ELSE handles
    /\ state' = Disconnected
    /\ pttToggled' = FALSE
    /\ out' = Out("Close", errNone,
                  IF dev = << >> THEN << >>
                  ELSE (IF state = PTTActive
                        THEN << SendReportTo(pttHIDID, powerUp) >> ELSE << >>)
                       \o CloseTransfers(dev[1]),
                  {}, << >>)
    /\ UNCHANGED << pttHIDID, touchHIDID, pressAge, swipeLeft, keepAwake,
                    sleepAfterMinutes, idleAge, sleeping, runVars >>

\* mutant: the poll tick health-checks whatever the state
PollTickAlwaysChecks ==
    /\ runpc = "select"
    /\ runpc' = "health"
    /\ UNCHANGED << mgrVars, cdev, pttID, touchID, settle, quitVars, auxVars, hkVars, handles >>
    /\ Quiet

\* mutant: the poll tick connects whatever the state
PollTickAlwaysConnect ==
    /\ runpc = "select"
    /\ runpc' = "open"
    /\ UNCHANGED << mgrVars, cdev, pttID, touchID, settle, quitVars, auxVars, hkVars, handles >>
    /\ Quiet

(***************************************************************************)
(* Run goroutine: poll tick, tryConnect, healthCheck, wake tick            *)
(***************************************************************************)
\* case <-pollTicker.C: read m.state under the lock, then choose
PollTick ==
    /\ runpc = "select"
    /\ runpc' = IF state = Disconnected THEN "open" ELSE "health"
    /\ UNCHANGED << mgrVars, cdev, pttID, touchID, settle, quitVars, auxVars, hkVars, handles >>
    /\ Quiet

\* case <-wakeTicker.C
WakeTick ==
    /\ runpc = "select"
    /\ keepAwakePing
    /\ UNCHANGED << runpc, cdev, pttID, touchID, quitVars, auxVars, hkVars >>

\* case <-ctx.Done()
RunReturn ==
    /\ runpc = "select"
    /\ cancelled
    /\ runpc' = "done"
    /\ UNCHANGED << mgrVars, cdev, pttID, touchID, settle, quitVars, auxVars, hkVars, handles >>
    /\ Quiet

\* tryConnect: aoa.Open(m.serial)
\* aoa.Open fails and Run stops retrying
OpenGivesUp ==
    /\ runpc = "open"
    /\ \E found \in BOOLEAN :
         IF found
         THEN /\ cdev' = << NewDevice >>
              /\ handles' = handles + 1
              /\ runpc' = "regPTT"
              /\ out' = Out("Open", errNone, << >>, {}, << >>)
         ELSE /\ runpc' = "done"
              /\ out' = Out("Open", errOpen, << >>, {}, << >>)
              /\ UNCHANGED << cdev, handles >>
    /\ UNCHANGED << mgrVars, pttID, touchID, settle, quitVars, auxVars, hkVars >>

Open ==
    /\ runpc = "open"
    /\ \E found \in BOOLEAN :
         IF found
         THEN /\ cdev' = << NewDevice >>
              /\ handles' = handles + 1
              /\ runpc' = "regPTT"
              /\ out' = Out("Open", errNone, << >>, {}, << >>)
         ELSE /\ runpc' = "select"
              /\ out' = Out("Open", errOpen, << >>, {}, << >>)
              /\ UNCHANGED << cdev, handles >>
    /\ UNCHANGED << mgrVars, pttID, touchID, settle, quitVars, auxVars, hkVars >>

\* mutant: tryConnect returns on a failed registration without dev.Close()
RegisterDescriptorLeak(dt, failed, sleepPc) ==
    LET d == cdev[1]
        id == d.nextHIDID
        desc == GetDescriptor(dt)
        d1 == [d EXCEPT !.nextHIDID = U16(id + 1)]
        reg == controlTransfer(reqRegisterHID, id, Len(desc), << >>)
        set == controlTransfer(reqSetHIDDesc, id, 0, desc)
        unreg == controlTransfer(reqUnregisterHID, id, 0, << >>)
    IN IF failed = 0
       THEN /\ cdev' = << d1 >>
            /\ runpc' = sleepPc
            /\ settle' = 0
            /\ out' = Out("RegisterDescriptor", errNone, << reg, set >>, {}, << >>)
            /\ UNCHANGED handles
       ELSE /\ cdev' = << >>
            /\ UNCHANGED handles
            /\ runpc' = "select"
            /\ settle' = 0
            /\ out' = Out("RegisterDescriptor", errTransfer,
                          IF failed = 1 THEN << reg >> ELSE << reg, set, unreg >>,
                          {failed}, << >>)

\* RegisterDescriptor up to its settle delay, on tryConnect's session:
\* failed = 0 (both requests went through), 1 (register failed) or
\* 2 (set-descriptor failed); a failure makes tryConnect close the session
RegisterDescriptor(dt, failed, sleepPc) ==
    LET d == cdev[1]
        id == d.nextHIDID
        desc == GetDescriptor(dt)
        d1 == [d EXCEPT !.nextHIDID = U16(id + 1)]
        reg == controlTransfer(reqRegisterHID, id, Len(desc), << >>)
        set == controlTransfer(reqSetHIDDesc, id, 0, desc)
        unreg == controlTransfer(reqUnregisterHID, id, 0, << >>)
    IN IF failed = 0
       THEN /\ cdev' = << d1 >>
            /\ runpc' = sleepPc
            /\ settle' = 0
            /\ out' = Out("RegisterDescriptor", errNone, << reg, set >>, {}, << >>)
            /\ UNCHANGED handles
       ELSE /\ cdev' = << >>
            /\ handles' = handles - 1
            /\ runpc' = "select"
            /\ settle' = 0
            /\ out' = Out("RegisterDescriptor", errTransfer,
                          (IF failed = 1 THEN << reg >> ELSE << reg, set, unreg >>)
                             \o CloseTransfers(d1),
                          {failed}, << >>)

\* the settle delay is over: the id joins the registration list
Registered(nextPc) ==
    LET d == cdev[1]
        id == U16(d.nextHIDID - 1)
    IN /\ settle >= registerSettleMs
       /\ cdev' = << [d EXCEPT !.registered = Append(@, id), !.lastHIDID = id] >>
       /\ runpc' = nextPc
       /\ settle' = 0

RegisterPTT ==
    /\ runpc = "regPTT"
    /\ \E failed \in 0..2 : RegisterDescriptor(DescSystemControl, failed, "settlePTT")
    /\ UNCHANGED << mgrVars, pttID, touchID, quitVars, auxVars, hkVars >>

RegisteredPTT ==
    /\ runpc = "settlePTT"
    /\ Registered("regTouch")
    /\ pttID' = cdev'[1].lastHIDID
    /\ UNCHANGED << mgrVars, touchID, quitVars, auxVars, hkVars, handles >>
    /\ Quiet

RegisterTouch ==
    /\ runpc = "regTouch"
    /\ \E failed \in 0..2 : RegisterDescriptor(DescTouchScreen, failed, "settleTouch")
    /\ UNCHANGED << mgrVars, pttID, touchID, quitVars, auxVars, hkVars >>

RegisteredTouch ==
    /\ runpc = "settleTouch"
    /\ Registered("install")
    /\ touchID' = cdev'[1].lastHIDID
    /\ UNCHANGED << mgrVars, pttID, quitVars, auxVars, hkVars, handles >>
    /\ Quiet

\* mutant: the connect leaves the Manager in PTTActive
InstallActive ==
    /\ runpc = "install"
    /\ dev' = cdev
    /\ state' = PTTActive
    /\ pttHIDID' = pttID
    /\ touchHIDID' = touchID
    /\ pttToggled' = FALSE
    /\ idleAge' = 0
    /\ sleeping' = FALSE
    /\ runpc' = "notify"
    /\ cdev' = << >>
    /\ out' = Out("tryConnect", errNone, << >>, {}, << >>)
    /\ UNCHANGED << pressAge, swipeLeft, keepAwake, sleepAfterMinutes,
                    pttID, touchID, settle, quitVars, auxVars, hkVars, handles >>

\* tryConnect's locked block: the session is installed
Install ==
    /\ runpc = "install"
    /\ dev' = cdev
    /\ state' = Connected
    /\ pttHIDID' = pttID
    /\ touchHIDID' = touchID
    /\ pttToggled' = FALSE
    /\ idleAge' = 0
    /\ sleeping' = FALSE
    /\ runpc' = "notify"
    /\ cdev' = << >>
    /\ out' = Out("tryConnect", errNone, << >>, {}, << >>)
    /\ UNCHANGED << pressAge, swipeLeft, keepAwake, sleepAfterMinutes,
                    pttID, touchID, settle, quitVars, auxVars, hkVars, handles >>

\* m.onChange(Connected), after the lock was released
NotifyConnected ==
    /\ runpc = "notify"
    /\ runpc' = "ping"
    /\ out' = Out("onChange", errNone, << >>, {}, << Connected >>)
    /\ UNCHANGED << mgrVars, cdev, pttID, touchID, settle, quitVars, auxVars, hkVars, handles >>

\* tryConnect's closing m.keepAwakePing()
ConnectPing ==
    /\ runpc = "ping"
    /\ keepAwakePing
    /\ runpc' = "select"
    /\ UNCHANGED << cdev, pttID, touchID, quitVars, auxVars, hkVars >>

\* mutant: the toggle flag survives the failed Ping
pingFailedKeepsToggle ==
    /\ dev' = << >>
    /\ handles' = handles - 1
    /\ state' = Disconnected
    /\ UNCHANGED pttToggled
    /\ out' = Out("healthCheck", errTransfer, CloseTransfers(dev[1]),
                  {}, << Disconnected >>)

\* healthCheck's branch for a failed Ping
pingFailed ==
    /\ dev' = << >>
    /\ handles' = handles - 1
    /\ state' = Disconnected
    /\ pttToggled' = FALSE
    /\ out' = Out("healthCheck", errTransfer, CloseTransfers(dev[1]),
                  {}, << Disconnected >>)

healthCheckBody ==
    /\ runpc = "health"
    /\ runpc' = "select"
    /\ IF dev = << >>
       THEN /\ out' = Out("healthCheck", errNone, << >>, {}, << >>)
            /\ UNCHANGED << state, dev, pttToggled, handles >>
       ELSE \E alive \in BOOLEAN :
              IF alive
              THEN /\ out' = Out("healthCheck", errNone, << >>, {}, << >>)
                   /\ UNCHANGED << state, dev, pttToggled, handles >>
              ELSE pingFailed
    /\ UNCHANGED << pttHIDID, touchHIDID, pressAge, swipeLeft, keepAwake,
                    sleepAfterMinutes, idleAge, sleeping, cdev, pttID, touchID,
                    settle >>

healthCheck ==
    /\ healthCheckBody
    /\ UNCHANGED << quitVars, auxVars, hkVars >>

(***************************************************************************)
(* Callers                                                                 *)
(***************************************************************************)
\* the settings handler and the tray menu
Settings ==
    /\ \E enabled \in BOOLEAN, minutes \in SleepChoices : SetKeepAwake(enabled, minutes)

\* the PTT hotkey: key down, key up
KeyDown == PTTDown /\ UNCHANGED << quitVars, auxVars, hkVars >>
KeyUp == PTTUp /\ UNCHANGED << quitVars, auxVars, hkVars >>
\* the swipe hotkey
SwipeKey == Swipe /\ UNCHANGED << quitVars, auxVars, hkVars >>

\* OnQuit: cancel(), then devMgr.Close()
Cancel ==
    /\ ~cancelled
    /\ cancelled' = TRUE
    /\ UNCHANGED << mgrVars, runVars, closed, handles, hkVars, auxVars >>
    /\ Quiet

QuitClose ==
    /\ cancelled
    /\ ~closed
    /\ closed' = TRUE
    /\ Close
    /\ UNCHANGED << cancelled, hkVars, auxVars >>

(***************************************************************************)
(* The PTT hotkey listener: hotkey.Manager.listen and its debounce timers  *)
(***************************************************************************)
\* the key goes down: an event on hk.Keydown()
KeyPress ==
    /\ ~keyHeld
    /\ Len(keys) < MaxKeys
    /\ keyHeld' = TRUE
    /\ keys' = Append(keys, "down")
    /\ UNCHANGED << mgrVars, runVars, quitVars, auxVars, handles,
                    isLinux, hkpc, debounceTimer, timers >>
    /\ Quiet

\* the key goes up: an event on hk.Keyup()
KeyRelease ==
    /\ keyHeld
    /\ Len(keys) < MaxKeys
    /\ keyHeld' = FALSE
    /\ keys' = Append(keys, "up")
    /\ UNCHANGED << mgrVars, runVars, quitVars, auxVars, handles,
                    isLinux, hkpc, debounceTimer, timers >>
    /\ Quiet

\* debounceTimer.Stop(): a timer that has not fired never will
Stop(t) == [timers EXCEPT ![t] = IF @.pc = "armed" THEN idleTimer ELSE @]

\* case <-hk.Keydown(): with a debounce timer set the event is dropped,
\* otherwise onDown is called next
ListenKeydown ==
    /\ hkpc = "select"
    /\ keys # << >>
    /\ Head(keys) = "down"
    /\ keys' = Tail(keys)
    /\ IF isLinux /\ debounceTimer # 0
       THEN /\ timers' = Stop(debounceTimer)
            /\ debounceTimer' = 0
            /\ UNCHANGED hkpc
       ELSE /\ hkpc' = "onDown"
            /\ UNCHANGED << debounceTimer, timers >>
    /\ UNCHANGED << mgrVars, runVars, quitVars, auxVars, handles, isLinux, keyHeld >>
    /\ Quiet

\* m.onDown(): devMgr.PTTDown()
ListenOnDown ==
    /\ hkpc = "onDown"
    /\ PTTDown
    /\ lastEdge' = "down"
    /\ hkpc' = "select"
    /\ UNCHANGED << quitVars, sessVars, lockVars, usbVars, cfgVars, isLinux, keyHeld, keys, debounceTimer, timers >>

\* case <-hk.Keyup(): on Linux the callback is put off by debounceMs with
\* time.AfterFunc, elsewhere onUp is called next
ListenKeyup ==
    /\ hkpc = "select"
    /\ keys # << >>
    /\ Head(keys) = "up"
    /\ keys' = Tail(keys)
    /\ IF isLinux
       THEN /\ \E t \in DOMAIN timers :
                 /\ timers[t].pc = "idle"
                 /\ \A u \in DOMAIN timers : timers[u].pc = "idle" => t <= u
                 /\ timers' = [timers EXCEPT ![t] = [pc |-> "armed", age |-> 0]]
                 /\ debounceTimer' = t
            /\ UNCHANGED hkpc
       ELSE /\ hkpc' = "onUp"
            /\ UNCHANGED << debounceTimer, timers >>
    /\ UNCHANGED << mgrVars, runVars, quitVars, auxVars, handles, isLinux, keyHeld >>
    /\ Quiet

\* m.onUp() called by listen itself: devMgr.PTTUp()
ListenOnUp ==
    /\ hkpc = "onUp"
    /\ PTTUp
    /\ lastEdge' = "up"
    /\ hkpc' = "select"
    /\ UNCHANGED << quitVars, sessVars, lockVars, usbVars, cfgVars, isLinux, keyHeld, keys, debounceTimer, timers >>

\* debounceMs after AfterFunc the timer starts its callback in a goroutine
TimerFire ==
    \E t \in DOMAIN timers :
        /\ timers[t].pc = "armed"
        /\ timers[t].age >= debounceMs
        /\ timers' = [timers EXCEPT ![t] = [pc |-> "onUp", age |-> 0]]
        /\ UNCHANGED << mgrVars, runVars, quitVars, auxVars, handles,
                        isLinux, keyHeld, keys, hkpc, debounceTimer >>
        /\ Quiet

\* the callback's m.onUp(): devMgr.PTTUp()
TimerOnUp ==
    \E t \in DOMAIN timers :
        /\ timers[t].pc = "onUp"
        /\ PTTUp
        /\ lastEdge' = "up"
        /\ timers' = [timers EXCEPT ![t].pc = "clear"]
        /\ UNCHANGED << quitVars, sessVars, lockVars, usbVars, cfgVars, isLinux, keyHeld, keys, hkpc, debounceTimer >>

\* the callback's debounceTimer = nil, whichever timer the variable holds
TimerClear ==
    \E t \in DOMAIN timers :
        /\ timers[t].pc = "clear"
        /\ debounceTimer' = 0
        /\ timers' = [timers EXCEPT ![t] = idleTimer]
        /\ UNCHANGED << mgrVars, runVars, quitVars, auxVars, handles,
                        isLinux, keyHeld, keys, hkpc >>
        /\ Quiet

(***************************************************************************)
(* package aoa: a Device used on its own, by one caller                    *)
(***************************************************************************)
restVars == << mgrVars, runVars, quitVars, handles, hkVars, usbVars, cfgVars, lastEdge, out >>

SOut(op, err, id, sent, failed, arg) ==
    [op |-> op, err |-> err, id |-> id, sent |-> sent, failed |-> failed,
     pre |-> session.d.registered, arg |-> arg]

\* calls made since the burst, or since Open when there was none
CallsSinceBurst == IF calls >= Burst THEN calls - Burst ELSE calls

\* mutant: a failed set-descriptor request leaves the id registered on the device
SessionRegisterNoCleanup ==
    /\ session.open
    /\ CallsSinceBurst < MaxCalls
    /\ \E dt \in {DescSystemControl, DescTouchScreen, DescUnknown}, failed \in 0..2 :
         LET d == session.d
             desc == GetDescriptor(dt)
             id == d.nextHIDID
             reg == controlTransfer(reqRegisterHID, id, Len(desc), << >>)
             set == controlTransfer(reqSetHIDDesc, id, 0, desc)
             unreg == controlTransfer(reqUnregisterHID, id, 0, << >>)
         IN IF desc = << >>
            THEN /\ failed = 0
                 /\ sout' = SOut("RegisterDescriptor", "unknown descriptor type", 0,
                                 << >>, {}, << dt >>)
                 /\ UNCHANGED << session, calls >>
            ELSE /\ calls' = calls + 1
                 /\ IF failed = 0
                    THEN /\ session' = [session EXCEPT
                                          !.d.nextHIDID = U16(id + 1),
                                          !.d.registered = Append(@, id),
                                          !.d.lastHIDID = id]
                         /\ sout' = SOut("RegisterDescriptor", errNone, id,
                                         << reg, set >>, {}, << dt >>)
                    ELSE /\ session' = [session EXCEPT !.d.nextHIDID = U16(id + 1)]
                         /\ sout' = SOut("RegisterDescriptor", errTransfer, id,
                                         IF failed = 1 THEN << reg >>
                                         ELSE << reg, set >>,
                                         {failed}, << dt >>)
    /\ UNCHANGED << restVars, lockVars >>

\* d.RegisterDescriptor(dt): failed = 0 (both requests went through),
\* 1 (register failed) or 2 (set-descriptor failed)
SessionRegister ==
    /\ session.open
    /\ CallsSinceBurst < MaxCalls
    /\ \E dt \in {DescSystemControl, DescTouchScreen, DescUnknown}, failed \in 0..2 :
         LET d == session.d
             desc == GetDescriptor(dt)
             id == d.nextHIDID
             reg == controlTransfer(reqRegisterHID, id, Len(desc), << >>)
             set == controlTransfer(reqSetHIDDesc, id, 0, desc)
             unreg == controlTransfer(reqUnregisterHID, id, 0, << >>)
         IN IF desc = << >>
            THEN /\ failed = 0
                 /\ sout' = SOut("RegisterDescriptor", "unknown descriptor type", 0,
                                 << >>, {}, << dt >>)
                 /\ UNCHANGED << session, calls >>
            ELSE /\ calls' = calls + 1
                 /\ IF failed = 0
                    THEN /\ session' = [session EXCEPT
                                          !.d.nextHIDID = U16(id + 1),
                                          !.d.registered = Append(@, id),
                                          !.d.lastHIDID = id]
                         /\ sout' = SOut("RegisterDescriptor", errNone, id,
                                         << reg, set >>, {}, << dt >>)
                    ELSE /\ session' = [session EXCEPT !.d.nextHIDID = U16(id + 1)]
                         /\ sout' = SOut("RegisterDescriptor", errTransfer, id,
                                         IF failed = 1 THEN << reg >>
                                         ELSE << reg, set, unreg >>,
                                         {failed}, << dt >>)
    /\ UNCHANGED << restVars, lockVars >>

\* Burst calls of d.RegisterDescriptor in a row whose register request fails:
\* each consumes an id; sout shows the last of them
SessionRegisterBurst ==
    /\ session.open
    /\ calls < Burst
    /\ LET d == session.d
           id == U16(d.nextHIDID + Burst - 1)
           desc == GetDescriptor(DescSystemControl)
       IN /\ calls' = calls + Burst
          /\ session' = [session EXCEPT !.d.nextHIDID = U16(id + 1)]
          /\ sout' = SOut("RegisterDescriptor", errTransfer, id,
                          << controlTransfer(reqRegisterHID, id, Len(desc), << >>) >>,
                          {1}, << DescSystemControl >>)
    /\ UNCHANGED << restVars, lockVars >>

\* mutant: the oldest registration is taken instead of the newest
UnregisterOldest(registered) == 1

\* d.UnregisterDescriptor: the index of the registration it removes
UnregisterIndex(registered) == Len(registered)

\* d.UnregisterDescriptor()
SessionUnregister ==
    /\ session.open
    /\ LET registered == session.d.registered
           i == UnregisterIndex(registered)
       IN IF Len(registered) = 0
          THEN /\ sout' = SOut("UnregisterDescriptor", errNone, 0, << >>, {}, << >>)
               /\ UNCHANGED session
          ELSE \E ok \in BOOLEAN :
                 /\ session' = [session EXCEPT !.d.registered =
                                   SubSeq(registered, 1, i - 1)
                                     \o SubSeq(registered, i + 1, Len(registered))]
                 /\ sout' = SOut("UnregisterDescriptor",
                                 IF ok THEN errNone ELSE errTransfer,
                                 registered[i],
                                 << controlTransfer(reqUnregisterHID, registered[i],
                                                    0, << >>) >>,
                                 IF ok THEN {} ELSE {1}, << >>)
    /\ UNCHANGED << calls, restVars, lockVars >>

\* d.SendReport(aoa.TouchReport(tip, x, y)), delivered
SessionSendTouch ==
    /\ session.open
    /\ \E tip \in BOOLEAN, x \in Coords, y \in Coords :
         sout' = SOut("SendReport", errNone, session.d.lastHIDID,
                      << SendReportTo(session.d.lastHIDID, TouchReport(tip, x, y)) >>,
                      {}, << tip, x, y >>)
    /\ UNCHANGED << session, calls, restVars, lockVars >>

\* d.Close(): f = 0 every unregister request goes through, f = n + 1 every one
\* fails, otherwise the f-th fails; the errors are dropped
SessionClose ==
    /\ session.open
    /\ LET n == Len(session.d.registered)
       IN \E f \in 0..(n + 1) :
            sout' = SOut("Close", errNone, 0, CloseTransfers(session.d),
                         IF f = 0 THEN {} ELSE IF f = n + 1 THEN 1..n ELSE {f},
                         << >>)
    /\ session' = [session EXCEPT !.d.registered = << >>, !.open = FALSE]
    /\ UNCHANGED << calls, restVars, lockVars >>

\* aoa.Open again, after the Close
SessionOpen ==
    /\ ~session.open
    /\ session' = [d |-> NewDevice, open |-> TRUE]
    /\ calls' = 0
    /\ sout' = SOut("Open", errNone, 0, << >>, {}, << >>)
    /\ UNCHANGED << restVars, lockVars >>

(***************************************************************************)
(* m.mu: the operations of Manager as critical sections                    *)
(***************************************************************************)
\* the exported operations the hotkey callbacks call
Gestures == {"PTTDown", "PTTUp", "Swipe"}

LockBarging == TRUE

\* the transfers the operation op has not issued yet
Left(op) == IF op \in DOMAIN wire.left THEN wire.left[op].n ELSE 0

\* an operation's body starts: its transfers (out'.sent) are still to go out
Begin(op, n) == [wire EXCEPT !.left = (op :> [n |-> n, begun |-> FALSE]) @@ @]

BlockSentAlways == TRUE

\* the operation holding the mutex has issued its last transfer and returns
BlockSent == Left(mu) = 0

\* m.mu.Lock() returns: nobody holds the mutex
Lock == mu = ""

\* a hotkey callback enters PTTDown, PTTUp or Swipe and reaches m.mu.Lock()
Call ==
    /\ \E op \in Gestures :
         /\ op \notin waiting
         /\ mu # op
         /\ waiting' = waiting \cup {op}
    /\ UNCHANGED << mgrVars, runVars, quitVars, handles, hkVars, sessVars, usbVars, cfgVars, lastEdge, mu, wire >>
    /\ Quiet

\* PTTDown from m.mu.Lock() to its last statement; the deferred Unlock follows
LockedPTTDown ==
    /\ "PTTDown" \in waiting
    /\ Lock
    /\ PTTDown
    /\ mu' = "PTTDown"
    /\ wire' = Begin("PTTDown", Len(out'.sent))
    /\ waiting' = waiting \ {"PTTDown"}
    /\ UNCHANGED << quitVars, hkVars, sessVars, usbVars, cfgVars, lastEdge >>

LockedPTTUp ==
    /\ "PTTUp" \in waiting
    /\ Lock
    /\ PTTUp
    /\ mu' = "PTTUp"
    /\ wire' = Begin("PTTUp", Len(out'.sent))
    /\ waiting' = waiting \ {"PTTUp"}
    /\ UNCHANGED << quitVars, hkVars, sessVars, usbVars, cfgVars, lastEdge >>

LockedSwipe ==
    /\ "Swipe" \in waiting
    /\ Lock
    /\ Swipe
    /\ mu' = "Swipe"
    /\ wire' = Begin("Swipe", Len(out'.sent))
    /\ waiting' = waiting \ {"Swipe"}
    /\ UNCHANGED << quitVars, hkVars, sessVars, usbVars, cfgVars, lastEdge >>

\* the deferred m.mu.Unlock() of the operation holding the mutex
\* one more transfer of an operation whose body is running goes out on the session
SendNext ==
    /\ \E op \in DOMAIN wire.left :
         /\ wire.left[op].n > 0
         /\ wire' = [last |-> op,
                     left |-> [wire.left EXCEPT ![op] = [n |-> @.n - 1, begun |-> TRUE]]]
    /\ UNCHANGED << mgrVars, runVars, quitVars, handles, hkVars, sessVars, usbVars, cfgVars, lastEdge, mu, waiting >>
    /\ Quiet

Unlock ==
    /\ mu # ""
    /\ BlockSent
    /\ mu' = ""
    /\ wire' = [wire EXCEPT !.left = [o \in {x \in DOMAIN @ : @[x].n > 0} |-> @[o]]]
    /\ UNCHANGED << mgrVars, runVars, quitVars, handles, hkVars, sessVars, usbVars, cfgVars, lastEdge, waiting >>
    /\ Quiet

\* Run reads m.state under the mutex and releases it at once
LockedPollTick == Lock /\ PollTick

\* Run's m.keepAwakePing(): locks, defers the unlock
LockedWakeTick ==
    /\ runpc = "select"
    /\ Lock
    /\ keepAwakePing
    /\ mu' = "keepAwakePing"
    /\ wire' = Begin("keepAwakePing", Len(out'.sent))
    /\ UNCHANGED << runpc, cdev, pttID, touchID, quitVars, hkVars, sessVars, usbVars, cfgVars, lastEdge, waiting >>

\* tryConnect: m.mu.Lock(), the assignments, m.mu.Unlock()
LockedInstall == Lock /\ Install

LockedConnectPing ==
    /\ runpc = "ping"
    /\ Lock
    /\ keepAwakePing
    /\ runpc' = "select"
    /\ mu' = "keepAwakePing"
    /\ wire' = Begin("keepAwakePing", Len(out'.sent))
    /\ UNCHANGED << cdev, pttID, touchID, quitVars, hkVars, sessVars, usbVars, cfgVars, lastEdge, waiting >>

LockedHealthCheck ==
    /\ Lock
    /\ healthCheckBody
    /\ mu' = "healthCheck"
    /\ wire' = Begin("healthCheck", Len(out'.sent))
    /\ UNCHANGED << quitVars, hkVars, sessVars, usbVars, cfgVars, lastEdge, waiting >>

\* OnQuit's devMgr.Close() after cancel(): locks, defers the unlock
LockedClose ==
    /\ cancelled
    /\ ~closed
    /\ Lock
    /\ Close
    /\ closed' = TRUE
    /\ mu' = "Close"
    /\ wire' = Begin("Close", Len(out'.sent))
    /\ UNCHANGED << cancelled, hkVars, sessVars, usbVars, cfgVars, lastEdge, waiting >>

(***************************************************************************)
(* package aoa: Open choosing among the devices on the bus                 *)
(***************************************************************************)
busFrame == << mgrVars, runVars, quitVars, handles, hkVars, sessVars, lockVars, cfgVars,
               lastEdge, out >>

\* a device that is not on the bus yet is plugged in
Attach ==
    /\ Len(attached) < MaxAttached
    /\ \E a \in Attachable :
         /\ \A i \in 1..Len(attached) : attached[i] # a
         /\ attached' = Append(attached, a)
    /\ UNCHANGED << opened, busFrame >>

\* a device is unplugged
Detach ==
    /\ \E i \in 1..Len(attached) :
         attached' = [k \in 1..(Len(attached) - 1) |->
                        IF k < i THEN attached[k] ELSE attached[k + 1]]
    /\ UNCHANGED << opened, busFrame >>

\* the filter given to ctx.OpenDevices
IsR1(desc) == desc.vendor = R1VendorID /\ desc.product = R1ProductID

\* Open's loop over devs from index i on: kept is the candidate in Open's
\* local dev so far (0 is nil), shut the candidates on which d.Close() was called
RECURSIVE OpenLoop(_, _, _, _, _)
OpenLoop(devs, serial, i, kept, shut) ==
    IF i > Len(devs)
    THEN [dev |-> kept, closed |-> shut]
    ELSE IF serial = "" \/ devs[i].serial = serial
         THEN OpenLoop(devs, serial, i + 1, i, shut)
         ELSE OpenLoop(devs, serial, i + 1, kept, shut \cup {i})

\* aoa.Open(serial) on the bus as it is; enumErr: ctx.OpenDevices also
\* returned an error
OpenSerial ==
    /\ \E serial \in Filters, enumErr \in BOOLEAN :
         LET devs == SelectSeq(attached, IsR1)
             r == OpenLoop(devs, serial, 1, 0, {})
         IN opened' = [op |-> "Open", serial |-> serial, devs |-> devs,
                       dev |-> r.dev, closed |-> r.closed,
                       err |-> IF (enumErr /\ devs = << >>) \/ r.dev = 0
                               THEN errOpen ELSE errNone]
    /\ UNCHANGED << attached, busFrame >>

Next ==
    \/ Tick
    \/ IdleTick
    \/ Settings
    \/ KeyDown
    \/ KeyUp
    \/ SwipeKey
    \/ PollTick
    \/ WakeTick
    \/ RunReturn
    \/ Open
    \/ RegisterPTT
    \/ RegisteredPTT
    \/ RegisterTouch
    \/ RegisteredTouch
    \/ Install
    \/ NotifyConnected
    \/ ConnectPing
    \/ healthCheck
    \/ Cancel
    \/ QuitClose

Spec == Init /\ [][Next]_vars

(***************************************************************************)
(* Run as long as its context is not cancelled: the tickers keep firing    *)
(* and every call Run makes returns                                        *)
(***************************************************************************)
NextLive ==
    \/ Tick
    \/ IdleTick
    \/ KeyDown
    \/ KeyUp
    \/ PollTick
    \/ WakeTick
    \/ Open
    \/ RegisterPTT
    \/ RegisteredPTT
    \/ RegisterTouch
    \/ RegisteredTouch
    \/ Install
    \/ NotifyConnected
    \/ ConnectPing
    \/ healthCheck

\* pollTicker.C is served whenever Run waits in the select; time passes;
\* tryConnect and healthCheck run statement after statement
RunFairness ==
    /\ WF_vars(Tick)
    /\ WF_vars(PollTick)
    /\ WF_vars(Open)
    /\ WF_vars(RegisterPTT)
    /\ WF_vars(RegisteredPTT)
    /\ WF_vars(RegisterTouch)
    /\ WF_vars(RegisteredTouch)
    /\ WF_vars(Install)
    /\ WF_vars(NotifyConnected)
    /\ WF_vars(ConnectPing)
    /\ WF_vars(healthCheck)

SpecLive == Init /\ [][NextLive]_vars /\ RunFairness

(***************************************************************************)
(* Keep-awake updates: POST /keepawake and the tray's OnKeepAwake, each    *)
(* writing the Config first and the Manager second                         *)
(***************************************************************************)
MaxRequests == 2    \* HTTP handlers running at the same time

validValues == {0, 30, 60, 120, 180, 300}

\* sleep_after_minutes values a client posts
PostedMinutes == {0, 30, 45}

\* the update h has returned
Done(h) == [k \in DOMAIN reqs \ {h} |-> reqs[k]]

\* Config.SetKeepAwake: the two assignments under c.mu
ConfigSet(enabled, minutes) == [KeepAwake |-> enabled, SleepAfterMinutes |-> minutes]

settingsFrame == << mgrVars, runVars, quitVars, handles, hkVars, sessVars, lockVars,
                    usbVars, lastEdge >>

\* handleKeepAwake up to the validation of sleep_after_minutes
handleKeepAwake ==
    /\ \E h \in 1..MaxRequests, enabled \in BOOLEAN, minutes \in PostedMinutes :
         /\ h \notin DOMAIN reqs
         /\ IF minutes \in validValues
            THEN /\ reqs' = (h :> [enabled |-> enabled, minutes |-> minutes, pc |-> "store"]) @@ reqs
                 /\ Quiet
            ELSE /\ reqs' = reqs
                 /\ out' = Out("handleKeepAwake", errInvalid, << >>, {}, << >>)
    /\ UNCHANGED << cfg, settingsFrame >>

\* s.cfg.SetKeepAwake: the Config changes, then Save succeeds or fails; on
\* failure the handler answers with the error and returns
HandlerStore ==
    /\ \E h \in DOMAIN reqs \ {0} :
         /\ reqs[h].pc = "store"
         /\ cfg' = ConfigSet(reqs[h].enabled, reqs[h].minutes)
         /\ \E saved \in BOOLEAN :
              IF saved
              THEN /\ reqs' = [reqs EXCEPT ![h].pc = "apply"]
                   /\ out' = Out("Config.SetKeepAwake", errNone, << >>, {}, << >>)
              ELSE /\ reqs' = Done(h)
                   /\ out' = Out("handleKeepAwake", errPersist, << >>, {}, << >>)
    /\ UNCHANGED settingsFrame

\* s.deviceMgr.SetKeepAwake and the response
HandlerApply ==
    /\ \E h \in DOMAIN reqs \ {0} :
         /\ reqs[h].pc = "apply"
         /\ applyKeepAwake(reqs[h].enabled, reqs[h].minutes)
         /\ reqs' = Done(h)
    /\ UNCHANGED cfg

\* the tray calls OnKeepAwake(enabled), which reads cfg.GetSleepAfterMinutes()
OnKeepAwake ==
    /\ 0 \notin DOMAIN reqs
    /\ \E enabled \in BOOLEAN :
         reqs' = (0 :> [enabled |-> enabled, minutes |-> cfg.SleepAfterMinutes,
                        pc |-> "store"]) @@ reqs
    /\ Quiet
    /\ UNCHANGED << cfg, settingsFrame >>

\* cfg.SetKeepAwake in OnKeepAwake: a failed Save is logged and ignored
TrayStore ==
    /\ 0 \in DOMAIN reqs
    /\ reqs[0].pc = "store"
    /\ cfg' = ConfigSet(reqs[0].enabled, reqs[0].minutes)
    /\ reqs' = [reqs EXCEPT ![0].pc = "reread"]
    /\ \E saved \in BOOLEAN :
         out' = Out("Config.SetKeepAwake", IF saved THEN errNone ELSE errPersist,
                    << >>, {}, << >>)
    /\ UNCHANGED settingsFrame

\* the second cfg.GetSleepAfterMinutes(), the argument of devMgr.SetKeepAwake
TrayReread ==
    /\ 0 \in DOMAIN reqs
    /\ reqs[0].pc = "reread"
    /\ reqs' = [reqs EXCEPT ![0].minutes = cfg.SleepAfterMinutes, ![0].pc = "apply"]
    /\ Quiet
    /\ UNCHANGED << cfg, settingsFrame >>

\* devMgr.SetKeepAwake in OnKeepAwake
TrayApply ==
    /\ 0 \in DOMAIN reqs
    /\ reqs[0].pc = "apply"
    /\ applyKeepAwake(reqs[0].enabled, reqs[0].minutes)
    /\ reqs' = Done(0)
    /\ UNCHANGED cfg

NextSettings ==
    \/ handleKeepAwake
    \/ HandlerStore
    \/ HandlerApply
    \/ OnKeepAwake
    \/ TrayStore
    \/ TrayReread
    \/ TrayApply

SpecSettings == Init /\ [][NextSettings]_vars

\* the tray with its PTT hotkey registered on either kind of platform: the
\* Manager is called by the listener and its timers, and by Run
InitHotkey == Constructed /\ isLinux \in BOOLEAN

NextHotkey ==
    \/ Tick
    \/ KeyPress
    \/ KeyRelease
    \/ ListenKeydown
    \/ ListenOnDown
    \/ ListenKeyup
    \/ ListenOnUp
    \/ TimerFire
    \/ TimerOnUp
    \/ TimerClear
    \/ PollTick
    \/ WakeTick
    \/ Open
    \/ RegisterPTT
    \/ RegisteredPTT
    \/ RegisterTouch
    \/ RegisteredTouch
    \/ Install
    \/ NotifyConnected
    \/ ConnectPing
    \/ healthCheck

SpecHotkey == InitHotkey /\ [][NextHotkey]_vars

\* one caller using a session of package aoa directly
NextSession ==
    \/ SessionRegister
    \/ SessionRegisterBurst
    \/ SessionUnregister
    \/ SessionSendTouch
    \/ SessionClose
    \/ SessionOpen

SpecSession == Init /\ [][NextSession]_vars

\* the callers and Run contending for m.mu; Open and the registrations of
\* tryConnect run before it takes the mutex
NextLock ==
    \/ Tick
    \/ Call
    \/ LockedPTTDown
    \/ LockedPTTUp
    \/ LockedSwipe
    \/ SendNext
    \/ Unlock
    \/ LockedPollTick
    \/ LockedWakeTick
    \/ Open
    \/ RegisterPTT
    \/ RegisteredPTT
    \/ RegisterTouch
    \/ RegisteredTouch
    \/ LockedInstall
    \/ NotifyConnected
    \/ LockedConnectPing
    \/ LockedHealthCheck
    \/ Cancel
    \/ LockedClose

SpecLock == Init /\ [][NextLock]_vars

\* aoa.Open called on a bus where devices come and go
NextOpen ==
    \/ Attach
    \/ Detach
    \/ OpenSerial

SpecOpen == Init /\ [][NextOpen]_vars

(***************************************************************************)
(* Properties                                                              *)
(***************************************************************************)
\* the reports among the transfers of the latest operation that failed
FailedReports == { out.sent[i].data : i \in out.failed }

\* positions in out.sent of the touch reports
TouchPositions ==
    { i \in 1..Len(out.sent) :
        out.sent[i].req = reqSendHIDEvent /\ Len(out.sent[i].data) = 5 }

\* the latest operation went down the disconnect path
DisconnectPath ==
    /\ state = Disconnected
    /\ dev = << >>
    /\ ~pttToggled
    /\ out.notes = << Disconnected >>

\* C1: whenever the state is PTTActive the Manager owns a session and its PTT
\* HID id is one of the ids registered on that session.
PTTActiveHasSession ==
    state = PTTActive =>
        /\ dev # << >>
        /\ \E i \in 1..Len(dev[1].registered) : dev[1].registered[i] = pttHIDID

\* C1 witness: a press has just put a reconnected Manager into PTTActive
PTTActiveReached ==
    /\ state = PTTActive
    /\ out.op = "PTTDown"
    /\ out.pre.state = Connected

\* C2 as stated: whenever the toggle flag is set the state is PTTActive,
\* whatever PTTDown and PTTUp edges, failures, health checks and reconnects
\* came before.
ToggledOnlyWhenActive ==
    pttToggled => state = PTTActive

\* C2, where it does hold: on a platform whose listener calls onDown and onUp
\* itself, in the order of the key's edges
ToggledOnlyWhenActiveOffLinux ==
    ~isLinux => (pttToggled => state = PTTActive)

\* C3 as stated: every Swipe invocation flips swipeLeft, whatever its outcome.
SwipeAlwaysFlips ==
    out.op = "Swipe" => swipeLeft # out.pre.left

\* C3 amended: a Swipe invocation made while a session is present flips
\* swipeLeft whether its transfers succeed or fail, and sweeps left exactly when
\* it is an odd-numbered one of these invocations; an invocation that returns
\* the no-device error sends nothing and leaves swipeLeft as it was.
SwipeFlipsWithSession ==
    out.op = "Swipe" =>
        IF out.err = errNoDevice
        THEN swipeLeft = out.pre.left /\ out.sent = << >>
        ELSE /\ swipeLeft # out.pre.left
             /\ out.pre.left <=> (out.swipesDev = 1)
             /\ \A i \in TouchPositions :
                  (\A j \in TouchPositions : i <= j) =>
                      out.sent[i].data =
                          TouchReport(TRUE, IF out.pre.left THEN 27000 ELSE 5000, 32590)

\* C3 witness: a right sweep whose transfer failed has flipped the direction
\* back to left
FailedRightSwipeFlipped ==
    /\ out.op = "Swipe"
    /\ out.err = errTransfer
    /\ ~out.pre.left
    /\ swipeLeft

\* C4 as stated: sleeping only in state Connected with the idle threshold
\* reached, and never right after a PTTDown, Swipe or SetKeepAwake call.
SleepingOnlyConnected ==
    /\ sleeping => (state = Connected /\ IdleExpired)
    /\ out.op \in {"PTTDown", "Swipe", "SetKeepAwake"} => ~sleeping

\* C4 amended: sleeping implies keep-awake is on, the idle duration is at or
\* above the non-zero threshold, and the state is Connected or Disconnected
\* (never PTTActive); it is false right after a PTTDown or Swipe made with a
\* session present, after SetKeepAwake and after a connect.  A failed health
\* check, a failed release and Close leave the flag as it was.
SleepingOnlyIdle ==
    /\ sleeping => (keepAwake /\ IdleExpired /\ state # PTTActive)
    /\ (out.op \in {"PTTDown", "Swipe"} /\ out.err # errNoDevice) => ~sleeping
    /\ out.op \in {"SetKeepAwake", "tryConnect"} => ~sleeping

\* C4 witness: the flag outlives a failed health check
SleepingWhileDisconnected ==
    /\ sleeping
    /\ state = Disconnected
    /\ out.op = "healthCheck"

\* C5: from Connected with the toggle off, press, short release, press, short
\* release (all delivered, nothing in between): PTTActive with the toggle on
\* after the first pair, Connected with the toggle off after the second.
TogglePairs ==
    /\ out.chain = 2 => (state = PTTActive /\ pttToggled)
    /\ out.chain = 4 => (state = Connected /\ ~pttToggled)

\* C5 witness: the second short release has just happened
SecondPairDone ==
    /\ out.chain = 4
    /\ out.op = "PTTUp"
    /\ out.sent = << SendReportTo(pttHIDID, powerUp) >>

\* C6: a PTTUp at least 300 ms after the press, with a session present and the
\* release report delivered, sends exactly the release report on the PTT
\* channel and ends Connected with the toggle off.
LongPressReleases ==
    (out.op = "PTTUp" /\ out.pre.long /\ out.err = errNone) =>
        /\ out.sent = << SendReportTo(pttHIDID, powerUp) >>
        /\ state = Connected
        /\ ~pttToggled

\* C6 witness: a long release while the toggle was on
LongReleaseOfToggled ==
    /\ out.op = "PTTUp"
    /\ out.pre.long
    /\ out.pre.toggled
    /\ out.pre.state = PTTActive
    /\ out.err = errNone

\* C7: a failed health check in Connected or PTTActive closes and drops the
\* session, leaves Disconnected with the toggle off and notifies the observer
\* with Disconnected.
HealthFailDisconnects ==
    (out.op = "healthCheck" /\ out.err # errNone) =>
        /\ out.pre.state \in {Connected, PTTActive}
        /\ DisconnectPath
        /\ handles = 0
        /\ Len(out.sent) = 2
        /\ \A i \in 1..Len(out.sent) : out.sent[i].req = reqUnregisterHID

\* C7 witness: the health check failed while PTT was toggled on
HealthFailedWhileToggled ==
    /\ out.op = "healthCheck"
    /\ out.err # errNone
    /\ out.pre.state = PTTActive
    /\ out.pre.toggled

\* C8 as stated: any report that fails during PTTDown or PTTUp (the wake
\* sequence included) takes the disconnect path and returns the error.
AnyPTTFailureDisconnects ==
    (out.op \in {"PTTDown", "PTTUp"} /\ out.failed # {}) =>
        (out.err = errTransfer /\ DisconnectPath)

\* C8 amended: a failed power-down report of PTTDown or release report of
\* PTTUp takes the disconnect path and returns the error; a failure of either
\* report of PTTDown's wake sequence is swallowed, and PTTDown goes on to send
\* the power-down report.
PTTFailureDisconnects ==
    out.op \in {"PTTDown", "PTTUp"} =>
        LET reports == { i \in 1..Len(out.sent) : out.sent[i].req = reqSendHIDEvent }
            final == { i \in reports : \A j \in reports : j <= i }
        IN /\ out.failed \subseteq reports
           /\ out.err = errTransfer <=> (out.failed \cap final # {})
           /\ out.err = errTransfer =>
                /\ DisconnectPath
                /\ \A i \in final :
                     out.sent[i] = SendReportTo(out.sent[i].wValue,
                                     IF out.op = "PTTDown" THEN powerDown ELSE powerUp)
           /\ (out.err = errNone /\ out.failed # {}) =>
                /\ out.op = "PTTDown"
                /\ state = PTTActive
                /\ FailedReports \subseteq {wakeUp, powerUp}
                /\ \A i \in final : out.sent[i].data = powerDown

\* C8 witness: the power-down report failed after a delivered wake sequence
PowerDownFailed ==
    /\ out.op = "PTTDown"
    /\ out.err = errTransfer
    /\ out.failed = {3}
    /\ DisconnectPath

\* C9: the first touch report of a Swipe that fails is the last one sent; the
\* Manager is Disconnected with the session closed, the observer notified, and
\* Swipe returns an error.
SwipeAbortsOnFailure ==
    out.op = "Swipe" =>
        LET failedTouch == out.failed \cap TouchPositions
        IN /\ failedTouch # {} <=> out.err = errTransfer
           /\ out.err = errTransfer =>
                /\ \A i \in failedTouch : \A j \in TouchPositions : j <= i
                /\ Cardinality(failedTouch) = 1
                /\ DisconnectPath
                /\ handles = IF cdev = << >> THEN 0 ELSE 1

\* C9 witness: the lift report failed after all nine touch-downs went through
LiftFailed ==
    /\ out.op = "Swipe"
    /\ out.err = errTransfer
    /\ Cardinality(TouchPositions) = 10
    /\ state = Disconnected

\* C10: the state is Connected only with both descriptors registered on the
\* installed session; a connect attempt whose Open or registration fails
\* closes what it opened, installs nothing, leaves Disconnected and notifies
\* nobody.
ConnectAllOrNothing ==
    /\ state # Disconnected =>
         (dev # << >> /\ dev[1].registered = << pttHIDID, touchHIDID >>)
    /\ out.op = "tryConnect" =>
         (state = Connected /\ out.notes = << >>)
    /\ (out.op \in {"Open", "RegisterDescriptor"} /\ out.err # errNone) =>
         /\ state = Disconnected
         /\ dev = << >>
         /\ cdev = << >>
         /\ handles = 0
         /\ out.notes = << >>
         /\ runpc = "select"

\* C10 witness: the second registration failed and the session was closed
SecondRegistrationFailed ==
    /\ out.op = "RegisterDescriptor"
    /\ out.err # errNone
    /\ \E i \in 1..Len(out.sent) : out.sent[i].wValue = 2
    /\ handles = 0

\* a step of the keep-awake watchdog (a wake tick, or the ping that ends a connect)
WatchdogStep == out'.op \in {"keepAwakePing", "keepAwakePing+log"}

\* C11: a keep-awake tick sends nothing when the state is not Connected, or
\* keep-awake is off, or the idle duration has reached a non-zero threshold; so
\* it sends nothing in PTTActive and in Disconnected.
KeepAwakeNoOp ==
    out.op \in {"keepAwakePing", "keepAwakePing+log"} =>
        /\ (state # Connected \/ ~keepAwake \/ IdleExpired) => out.sent = << >>
        /\ out.sent # << >> => (state = Connected /\ dev # << >>)

\* C11 witness: a tick while PTT is active, keep-awake on and the idle timer
\* not expired, has sent nothing
KeepAwakeSkippedInPTT ==
    /\ out.op = "keepAwakePing"
    /\ state = PTTActive
    /\ keepAwake
    /\ ~IdleExpired
    /\ out.sent = << >>

\* C12: with keep-awake on, Connected and the idle threshold reached, the first
\* watchdog tick sets sleeping and logs the transition; every tick that finds
\* sleeping set sends nothing and logs nothing; and sleeping is cleared only by
\* PTTDown, Swipe, SetKeepAwake or a connect, each of which restarts the idle
\* period: one log line per idle period.
SleepLoggedOnce ==
    [][/\ WatchdogStep =>
            /\ (out'.op = "keepAwakePing+log") <=>
                   (dev # << >> /\ state = Connected /\ keepAwake /\ IdleExpired
                    /\ ~sleeping)
            /\ out'.op = "keepAwakePing+log" => (sleeping' /\ out'.sent = << >>)
            /\ sleeping => (sleeping' /\ out'.sent = << >>)
       /\ (sleeping /\ ~sleeping') =>
            /\ out'.op \in {"PTTDown", "Swipe", "SetKeepAwake", "tryConnect"}
            /\ idleAge' = 0
       /\ (~sleeping /\ sleeping') => out'.op = "keepAwakePing+log"]_vars

\* C12 witness: a later tick of the same idle period found sleeping set, sent
\* nothing and logged nothing
SleepingTickSilent ==
    /\ out.op = "keepAwakePing"
    /\ sleeping
    /\ state = Connected
    /\ keepAwake
    /\ out.sent = << >>

\* the latest operation on the session was a RegisterDescriptor call that
\* consumed an id (its descriptor type was known)
ConsumedId == sout.op = "RegisterDescriptor" /\ sout.err # "unknown descriptor type"

\* C13 as stated: the k-th RegisterDescriptor call of a session that consumes an
\* id uses id k (1, 2, 3, ...), above every id handed out before it, whether
\* earlier calls failed or their ids were unregistered.
IdsAscendNeverReused ==
    ConsumedId =>
        /\ sout.id = calls
        /\ \A i \in 1..Len(sout.pre) : sout.pre[i] < sout.id

\* C13, where it does hold: up to the 65535th call of a session
IdsAscendBeforeWrap ==
    (ConsumedId /\ calls < 65536) =>
        /\ sout.id = calls
        /\ \A i \in 1..Len(sout.pre) : sout.pre[i] < sout.id

\* C14: UnregisterDescriptor removes the last element of the registration list
\* and sends the unregister request for that id, leaving the others in place;
\* on an empty list it sends nothing and returns no error.
UnregisterIsLIFO ==
    sout.op = "UnregisterDescriptor" =>
        LET n == Len(sout.pre)
        IN IF n = 0
           THEN /\ sout.sent = << >>
                /\ sout.err = errNone
                /\ session.d.registered = << >>
           ELSE /\ session.d.registered = SubSeq(sout.pre, 1, n - 1)
                /\ sout.id = sout.pre[n]
                /\ sout.sent = << controlTransfer(reqUnregisterHID, sout.pre[n], 0, << >>) >>

\* C14 witness: one of two registrations was removed
SecondOfTwoUnregistered ==
    /\ sout.op = "UnregisterDescriptor"
    /\ Len(sout.pre) = 2
    /\ session.d.registered = << sout.pre[1] >>
    /\ sout.pre[1] # sout.pre[2]

\* C15 as stated: Close sends one unregister request per outstanding id, last
\* registered first, whatever fails, then the handle is released and the list
\* is empty.
CloseUnregistersInReverse ==
    sout.op = "Close" =>
        LET n == Len(sout.pre)
        IN /\ Len(sout.sent) = n
           /\ \A i \in 1..n :
                sout.sent[i] = controlTransfer(reqUnregisterHID, sout.pre[n + 1 - i],
                                               0, << >>)
           /\ session.d.registered = << >>
           /\ ~session.open

\* C15 amended: Close sends one unregister request per outstanding id in
\* registration order (first registered first), goes on past requests that
\* fail, returns nothing, then releases the handle and leaves the list empty.
CloseUnregistersInOrder ==
    sout.op = "Close" =>
        LET n == Len(sout.pre)
        IN /\ Len(sout.sent) = n
           /\ \A i \in 1..n :
                sout.sent[i] = controlTransfer(reqUnregisterHID, sout.pre[i], 0, << >>)
           /\ sout.failed \subseteq 1..n
           /\ sout.err = errNone
           /\ session.d.registered = << >>
           /\ ~session.open

\* C15 witness: three registrations were outstanding and the first unregister
\* request failed
ClosePastFailure ==
    /\ sout.op = "Close"
    /\ Len(sout.pre) = 3
    /\ sout.failed = {1}
    /\ Len(sout.sent) = 3

CriticalOps ==
    Gestures \cup {"keepAwakePing", "keepAwakePing+log", "healthCheck", "tryConnect"}

\* tryConnect between the return of aoa.Open and the installation
Reconnecting == runpc \in {"regPTT", "settlePTT", "regTouch", "settleTouch", "install"}

\* C17 as stated: while a gesture or a keep-awake nudge holds the Manager, or
\* a reconnect sequence (open plus the two registrations) is in flight, no
\* gesture runs: it blocks until the other completes and does not return early
NothingRunsDuringReconnect ==
    [][(mu # "" \/ Reconnecting) => out'.op \notin Gestures]_vars

\* C17: the body of every operation starts with the mutex free and nobody
\* else inside; while an operation holds the mutex it stays the holder until
\* its own unlock and the callers that wait keep waiting; but Open and the two
\* registrations of tryConnect hold no mutex, and a gesture called meanwhile
\* returns "no device connected" at once without a transfer
GesturesSerialised ==
    [][/\ out'.op \in CriticalOps => mu = ""
       /\ (mu # "" /\ mu' # "") => (mu' = mu /\ waiting \subseteq waiting')
       /\ (Reconnecting /\ out'.op \in Gestures)
            => (mu = "" /\ out'.err = errNoDevice /\ out'.sent = << >>)]_vars

\* a swipe is in flight, a PTT press waits for it and so does Run's health check
GestureHoldsOthersWait ==
    /\ mu = "Swipe"
    /\ "PTTDown" \in waiting
    /\ runpc = "health"

\* C18: the Manager owns at most one open session: at most one USB handle is
\* open on its behalf, a session being registered is never held next to an
\* installed one, and a connect installs only when no session is held; the
\* session it installs is fresh, its two descriptors carrying ids 1 and 2
OneSessionOwned ==
    /\ Len(dev) <= 1
    /\ Len(cdev) <= 1
    /\ Len(dev) + Len(cdev) <= 1
    /\ handles = Len(dev) + Len(cdev)
    /\ out.op = "tryConnect" =>
         /\ ~out.pre.hasDev
         /\ dev # << >>
         /\ dev[1].registered = << 1, 2 >>
         /\ dev[1].nextHIDID = 3
         /\ dev[1].lastHIDID = 2
         /\ pttHIDID = 1
         /\ touchHIDID = 2

\* a connect that follows a session on which a swipe had been made
Reconnected ==
    /\ out.op = "tryConnect"
    /\ ~swipeLeft
    /\ dev # << >>
    /\ dev[1].registered = << 1, 2 >>

\* C19: the report TouchReport builds for (touching, x, y) has five bytes:
\* flags 3 when touching and 0 when not, then x and y, each low byte first,
\* so that both coordinates are recovered from the bytes; (100, 200) gives
\* 0x64 0x00 0xC8 0x00 after the flags
TouchReportLayout ==
    sout.op = "SendReport" =>
      LET tip == sout.arg[1]
          x == sout.arg[2]
          y == sout.arg[3]
          data == sout.sent[1].data
      IN /\ Len(sout.sent) = 1
         /\ Len(data) = 5
         /\ data[1] = (IF tip THEN 3 ELSE 0)
         /\ \A i \in 2..5 : data[i] \in 0..255
         /\ data[2] = x % 256
         /\ data[3] = x \div 256
         /\ data[4] = y % 256
         /\ data[5] = y \div 256
         /\ data[2] + 256 * data[3] = x
         /\ data[4] + 256 * data[5] = y
         /\ (x = 100 /\ y = 200) => data = << IF tip THEN 3 ELSE 0, 100, 0, 200, 0 >>

\* the touch-down report for (100, 200) has been sent
TouchDownAt100x200 ==
    /\ sout.op = "SendReport"
    /\ sout.arg = << TRUE, 100, 200 >>
    /\ sout.sent[1].data = << 3, 100, 0, 200, 0 >>

\* the coordinates a touch report carries
ReportX(data) == data[2] + 256 * data[3]
ReportY(data) == data[4] + 256 * data[5]

Qualifying ==
    { i \in 1..Len(opened.devs) :
        opened.serial = "" \/ opened.devs[i].serial = opened.serial }

\* C21 as stated: Open selects the first R1 that qualifies (any R1 with an
\* empty filter, else one whose serial equals the filter), fails with the
\* not-found error when none qualifies, and closes every opened candidate but
\* the selected one
OpenSelectsFirstClosesRest ==
    opened.op = "Open" =>
      /\ \A i \in 1..Len(opened.devs) : IsR1(opened.devs[i])
      /\ IF Qualifying = {}
         THEN /\ opened.err = errOpen
              /\ opened.dev = 0
              /\ opened.closed = 1..Len(opened.devs)
         ELSE /\ opened.err = errNone
              /\ opened.dev \in Qualifying
              /\ \A i \in Qualifying : opened.dev <= i
              /\ opened.closed = (1..Len(opened.devs)) \ {opened.dev}

\* the step is a call of the onDown callback
OnDownStep == hkpc = "onDown" /\ hkpc' = "select"

\* the step is a call of the onUp callback, by listen or by a debounce timer
OnUpStep ==
    \/ hkpc = "onUp" /\ hkpc' = "select"
    \/ \E t \in DOMAIN timers : timers[t].pc = "onUp" /\ timers'[t].pc = "clear"

\* C22 as stated: the callbacks reach the Device Manager as alternating edges
\* starting with key-down: onDown only after an onUp (or first), onUp only
\* after an onDown, whatever the interleaving of key events, debounce timers
\* and a slow onUp
CallbacksAlternate ==
    [][/\ OnDownStep => lastEdge = "up"
       /\ OnUpStep => lastEdge = "down"]_vars

\* the edges alternate where the listener calls both callbacks itself
CallbacksAlternateOffLinux ==
    [][~isLinux => /\ OnDownStep => lastEdge = "up"
                   /\ OnUpStep => lastEdge = "down"]_vars

\* C23 as stated: once the cancellation of Run's context has been requested,
\* Run, back at its select, starts no poll-tick and no keep-awake-tick
\* iteration any more: its only step from there is to return
NoIterationAfterCancel ==
    [][(cancelled /\ runpc = "select") =>
         (runpc' \in {"select", "done"} /\ ~WatchdogStep)]_vars

\* C24: SetKeepAwake, in whatever state it is called, stores the two settings,
\* resets the idle timer and clears sleeping, and touches nothing else: state,
\* session, HID ids, toggle and swipe direction stay, nothing is sent, nobody
\* is notified, Run is not made to reconnect; and the tick that follows goes
\* by the stored settings
SetKeepAwakeFrame ==
    [][/\ out'.op = "SetKeepAwake" =>
            /\ idleAge' = 0
            /\ ~sleeping'
            /\ keepAwake' \in BOOLEAN
            /\ sleepAfterMinutes' \in SleepChoices
            /\ UNCHANGED << state, dev, pttHIDID, touchHIDID, pttToggled,
                            swipeLeft, pressAge, handles, runVars >>
            /\ out'.sent = << >>
            /\ out'.notes = << >>
            /\ out'.err = errNone
       /\ (WatchdogStep /\ out.op = "SetKeepAwake") =>
            (out'.sent # << >>) =
               (dev # << >> /\ state = Connected /\ keepAwake /\ ~IdleExpired)]_vars

\* the settings were changed while PTT was toggled on
SettingsChangedInPTT ==
    /\ out.op = "SetKeepAwake"
    /\ state = PTTActive
    /\ pttToggled
    /\ ~keepAwake
    /\ dev # << >>

\* C25: a poll tick takes Run from its select to a connect attempt when the
\* state it read is Disconnected and to a health check otherwise, nothing
\* else; the health check opens no accessory; and whatever other callers do
\* between the read and the action, a connect attempt is only ever under way
\* while the Manager holds no session
PollTickOneOfTwo ==
    [][/\ (runpc = "select" /\ runpc' \notin {"select", "done"}) =>
            runpc' = (IF state = Disconnected THEN "open" ELSE "health")
       /\ runpc = "health" =>
            /\ runpc' \in {"health", "select"}
            /\ cdev' = << >>
            /\ handles' <= handles
       /\ (runpc = "health" /\ runpc' = "select") => out'.op = "healthCheck"
       /\ runpc \in {"open", "regPTT", "settlePTT", "regTouch", "settleTouch",
                     "install"} =>
            (dev = << >> /\ state = Disconnected)
       /\ out'.op = "Open" => dev = << >>]_vars

\* Run read Connected, a failed gesture then dropped the session, and the
\* health check is still to come
DroppedBeforeHealthCheck ==
    /\ runpc = "health"
    /\ state = Disconnected
    /\ dev = << >>
    /\ out.op \in Gestures
    /\ out.err = errTransfer

ShortReleaseToggles ==
    [][(out'.op = "PTTUp" /\ dev # << >> /\ pressAge < toggleThreshold) =>
         IF ~pttToggled
         THEN /\ pttToggled'
              /\ out'.sent = << >>
              /\ out'.notes = << >>
              /\ out'.err = errNone
              /\ state' = state
              /\ dev' = dev
         ELSE /\ ~pttToggled'
              /\ out'.sent # << >>
              /\ out'.sent[1] = SendReportTo(pttHIDID, powerUp)
              /\ \A i \in 2..Len(out'.sent) : out'.sent[i].req # reqSendHIDEvent
              /\ out'.err = errNone =>
                   /\ Len(out'.sent) = 1
                   /\ state' = Connected
                   /\ dev' = dev
                   /\ out'.notes = << Connected >>]_vars

\* a short release has switched the toggle off again
ToggledOffByTap ==
    /\ out.op = "PTTUp"
    /\ ~out.pre.long
    /\ out.pre.toggled
    /\ out.pre.state = PTTActive
    /\ state = Connected
    /\ ~pttToggled
    /\ Len(out.sent) = 1

\* the two requests of a registration and the request that undoes it
RegisterRequest(id, dt) == controlTransfer(reqRegisterHID, id, Len(GetDescriptor(dt)), << >>)
SetDescRequest(id, dt) == controlTransfer(reqSetHIDDesc, id, 0, GetDescriptor(dt))
UnregisterRequest(id) == controlTransfer(reqUnregisterHID, id, 0, << >>)

\* a single RegisterDescriptor call for a known descriptor type
RegisterStep ==
    /\ sout'.op = "RegisterDescriptor"
    /\ calls' = calls + 1
    /\ GetDescriptor(sout'.arg[1]) # << >>

\* C28 as stated: RegisterDescriptor sends the register request, then the
\* set-descriptor request; if either fails it sends an unregister request for
\* the id, returns an error and leaves the list and the default target alone
RegisterFailureUnregisters ==
    [][RegisterStep =>
         LET id == session.d.nextHIDID
             dt == sout'.arg[1]
             sent == sout'.sent
         IN /\ sent[1] = RegisterRequest(id, dt)
            /\ sout'.failed = {} =>
                 (sent = << RegisterRequest(id, dt), SetDescRequest(id, dt) >>
                    /\ sout'.err = errNone)
            /\ sout'.failed # {} =>
                 /\ sent[Len(sent)] = UnregisterRequest(id)
                 /\ sout'.err # errNone
                 /\ session'.d.registered = session.d.registered
                 /\ session'.d.lastHIDID = session.d.lastHIDID]_vars

\* C28: RegisterDescriptor sends the register request, then the set-descriptor
\* request. If the register request fails nothing more is sent; if the
\* set-descriptor request fails an unregister request for the id follows. In
\* both cases an error is returned and neither the registration list nor the
\* default target changes; with both delivered the id joins the list and
\* becomes the default target
RegisterFailureCleanup ==
    [][RegisterStep =>
         LET id == session.d.nextHIDID
             dt == sout'.arg[1]
             sent == sout'.sent
         IN /\ sout'.failed \in {{}, {1}, {2}}
            /\ sout'.failed = {} =>
                 /\ sent = << RegisterRequest(id, dt), SetDescRequest(id, dt) >>
                 /\ sout'.err = errNone
                 /\ session'.d.registered = Append(session.d.registered, id)
                 /\ session'.d.lastHIDID = id
            /\ sout'.failed = {1} => sent = << RegisterRequest(id, dt) >>
            /\ sout'.failed = {2} =>
                 sent = << RegisterRequest(id, dt), SetDescRequest(id, dt),
                           UnregisterRequest(id) >>
            /\ sout'.failed # {} =>
                 /\ sout'.err # errNone
                 /\ session'.d.registered = session.d.registered
                 /\ session'.d.lastHIDID = session.d.lastHIDID]_vars

\* a registration whose set-descriptor request failed, on a session that has
\* a descriptor registered already
SetDescFailedAfterOne ==
    /\ sout.op = "RegisterDescriptor"
    /\ sout.failed = {2}
    /\ Len(sout.sent) = 3
    /\ sout.sent[3].req = reqUnregisterHID
    /\ session.d.registered = << 1 >>
    /\ session.d.lastHIDID = 1
    /\ session.d.nextHIDID = 3

\* C29 as stated: every PTTDown, PTTUp and Swipe made while a session exists
\* resets the idle timer: right after the call no idle time has elapsed and
\* sleeping is false
EveryGestureResetsIdle ==
    [][(out'.op \in Gestures /\ dev # << >>) => (idleAge' = 0 /\ ~sleeping')]_vars

\* what does hold: PTTDown and Swipe reset the idle timer, PTTUp leaves the
\* idle timer and sleeping as they were
PressAndSwipeResetIdle ==
    [][/\ (out'.op \in {"PTTDown", "Swipe"} /\ dev # << >>) =>
            (idleAge' = 0 /\ ~sleeping')
       /\ out'.op = "PTTUp" => UNCHANGED << idleAge, sleeping >>]_vars

\* C30: a keep-awake tick that sends at all sends four reports: wake-up and
\* release on the PTT channel, then touch-down and touch-up at (32590, 32590)
\* on the touch channel; all four are attempted whichever of them fail, no
\* error surfaces, nobody is notified, and state, session, toggle, swipe
\* direction and idle timer are left as they were
PingSendsFour ==
    [][(WatchdogStep /\ out'.sent # << >>) =>
         LET sent == out'.sent
         IN /\ Len(sent) = 4
            /\ \A i \in 1..4 : sent[i].req = reqSendHIDEvent
            /\ sent[1].wValue = pttHIDID /\ sent[1].data = wakeUp
            /\ sent[2].wValue = pttHIDID /\ sent[2].data = powerUp
            /\ sent[3].wValue = touchHIDID /\ sent[3].data[1] = 3
            /\ sent[4].wValue = touchHIDID /\ sent[4].data[1] = 0
            /\ \A i \in 3..4 : /\ Len(sent[i].data) = 5
                               /\ ReportX(sent[i].data) = 32590
                               /\ ReportY(sent[i].data) = 32590
            /\ out'.failed \subseteq 1..4
            /\ out'.err = errNone
            /\ out'.notes = << >>
            /\ UNCHANGED << state, dev, pttHIDID, touchHIDID, pttToggled,
                            swipeLeft, idleAge, sleeping, keepAwake,
                            sleepAfterMinutes, handles >>]_vars

\* a tick all four of whose reports failed
PingAllFailed ==
    /\ out.op = "keepAwakePing"
    /\ Len(out.sent) = 4
    /\ out.failed = 1..4
    /\ state = Connected
    /\ dev # << >>

\* C38: the Manager starts Disconnected and its state changes only from
\* Disconnected to Connected (a connect), from Connected to PTTActive
\* (PTTDown), from PTTActive to Connected (PTTUp) and from Connected or
\* PTTActive to Disconnected (a failed transfer or health check, or Close);
\* never from Disconnected to PTTActive
StateEdges ==
    [][/\ out.op = "NewManager" => state = Disconnected
       /\ state' # state =>
            \/ /\ state = Disconnected
               /\ state' = Connected
               /\ out'.op = "tryConnect"
            \/ /\ state = Connected
               /\ state' = PTTActive
               /\ out'.op = "PTTDown"
            \/ /\ state = PTTActive
               /\ state' = Connected
               /\ out'.op = "PTTUp"
            \/ /\ state \in {Connected, PTTActive}
               /\ state' = Disconnected
               /\ out'.err = errTransfer \/ out'.op = "Close"]_vars

\* Close has taken the Manager from PTTActive to Disconnected
ClosedFromPTTActive ==
    /\ out.op = "Close"
    /\ out.pre.state = PTTActive
    /\ state = Disconnected

\* C39: PTTDown, PTTUp and Swipe called while the Manager owns no session
\* return "no device connected", send nothing, notify nobody and leave every
\* field of the Manager as it was: state, toggle, press time, swipe direction,
\* idle timer and sleeping among them
NoSessionNoEffect ==
    [][(out'.op \in Gestures /\ dev = << >>) =>
         /\ out'.err = errNoDevice
         /\ out'.sent = << >>
         /\ out'.notes = << >>
         /\ UNCHANGED << mgrVars, runVars, handles >>]_vars

\* a swipe refused for want of a session, after an earlier swipe had turned
\* the direction and the idle timer had run
SwipeRefused ==
    /\ out.op = "Swipe"
    /\ out.err = errNoDevice
    /\ ~swipeLeft
    /\ idleAge > 0

\* C34: between operations, that is whenever m.mu is free, the state is
\* Disconnected exactly when the Manager holds no session
StateMatchesSession == (state = Disconnected) <=> (dev = << >>)

\* a swipe during PTTActive failed and left the Manager without a session
SwipeFailedInPTT ==
    /\ out.op = "Swipe"
    /\ out.err = errTransfer
    /\ out.pre.state = PTTActive
    /\ state = Disconnected
    /\ dev = << >>

\* C35 as stated: once OnQuit's Close has returned, the Manager owns no
\* session and its state is Disconnected, for good, however Close interleaves
\* with an iteration of Run that is still in progress
ClosedStaysDisconnected == closed => (state = Disconnected /\ dev = << >>)

\* the reports among the transfers sent that release or wake on the PTT channel
ReleasesOnPTT(sent) ==
    { i \in 1..Len(sent) :
        /\ sent[i].req = reqSendHIDEvent
        /\ sent[i].wValue = pttHIDID
        /\ sent[i].data \in {powerUp, wakeUp} }

\* C36 as stated: while the state is PTTActive no operation but PTTUp and
\* Close sends a release or a wake-up report on the PTT channel; a Swipe or a
\* keep-awake tick during PTTActive does not release the held key
PTTHeldUntilRelease ==
    [][(state = PTTActive /\ out'.op \notin {"PTTUp", "Close"}) =>
         ReleasesOnPTT(out'.sent) = {}]_vars

\* the part that holds: a keep-awake tick during PTTActive sends nothing
PTTHeldThroughTicks ==
    [][(state = PTTActive /\ WatchdogStep) => out'.sent = << >>]_vars

\* C33 as stated: after any registrations and unregistrations, a SendReport
\* made while the registration list is not empty goes to the id at the tail
\* of the list, the one the next UnregisterDescriptor would remove
SendTargetsTail ==
    (sout.op = "SendReport" /\ sout.pre # << >>) =>
        sout.sent[1].wValue = sout.pre[UnregisterIndex(sout.pre)]

\* what does hold: SendReport goes to the id of the latest successful
\* registration, which is the tail as long as nothing was unregistered since
SendTargetsLastRegistered ==
    [][/\ sout'.op = "SendReport" => sout'.sent[1].wValue = session.d.lastHIDID
       /\ (sout'.op = "RegisterDescriptor" /\ sout'.err = errNone) =>
            /\ session'.d.lastHIDID = sout'.id
            /\ session'.d.registered[Len(session'.d.registered)] = sout'.id
       /\ sout'.op = "UnregisterDescriptor" =>
            session'.d.lastHIDID = session.d.lastHIDID]_vars

\* C37 as stated: the observer is notified in the order of the state changes,
\* so each notification, and with it the most recent one, carries the state
\* the Manager is in when the notification is delivered; also when a PTTDown
\* or a transfer failure runs between the installation of a session and
\* tryConnect's notification of it
NotificationsInOrder ==
    [][out'.notes # << >> => out'.notes[Len(out'.notes)] = state']_vars

\* what does hold: the notifications made under the lock carry the current state
LockedNotificationsInOrder ==
    [][(out'.notes # << >> /\ out'.op # "onChange") =>
         out'.notes[Len(out'.notes)] = state']_vars


\* C32: the transfers of one Manager operation form a contiguous block on the
\* session: when an operation that has begun its block issues its next
\* transfer, the transfer before it on the session was its own, and no other
\* operation has transfers outstanding
TransfersContiguous ==
    [][\A op \in DOMAIN wire.left :
         (op \in DOMAIN wire'.left /\ wire'.left[op].n < wire.left[op].n)
            => /\ wire.left[op].begun => wire.last = op
               /\ \A o \in DOMAIN wire.left \ {op} : wire.left[o].n = 0]_vars

\* a Swipe has issued its whole block while a PTTDown waited for the mutex
SwipeBlockSentWhileWaiting ==
    /\ mu = "Swipe"
    /\ "Swipe" \in DOMAIN wire.left
    /\ wire.left["Swipe"] = [n |-> 0, begun |-> TRUE]
    /\ wire.last = "Swipe"
    /\ "PTTDown" \in waiting
    /\ state = Connected

\* Close has issued its release and unregister transfers while a Swipe waited
CloseBlockSentWhileWaiting ==
    /\ mu = "Close"
    /\ "Close" \in DOMAIN wire.left
    /\ wire.left["Close"] = [n |-> 0, begun |-> TRUE]
    /\ wire.last = "Close"
    /\ "Swipe" \in waiting

\* an attempt of tryConnect has just failed in aoa.Open or in a registration
ConnectFailed == out.op \in {"Open", "RegisterDescriptor"} /\ out.err # errNone

\* C31: while Run is served its poll ticks, if from some point on every
\* connection attempt finds the accessory and its transfers succeed, a
\* Disconnected Manager eventually becomes Connected; if no attempt ever gets
\* through aoa.Open and both registrations, the state stays Disconnected and
\* Run starts a new attempt again and again
ReconnectsOrRetries ==
    /\ <>[]~ConnectFailed => (state = Disconnected ~> state = Connected)
    /\ [](runpc # "install") => ([](state = Disconnected) /\ []<>(runpc = "open"))

\* an attempt of Run got through: the Disconnected Manager is now Connected
ReconnectedByRun ==
    /\ out.op = "tryConnect"
    /\ state = Connected
    /\ runpc = "notify"
    /\ dev # << >>
    /\ out.pre.state = Disconnected

\* C40: once every keep-awake update has completed, the pair the Config holds
\* in memory (the pair /status reports) is the pair in force in the Manager
KeepAwakeAgrees ==
    DOMAIN reqs = {} =>
        cfg = [KeepAwake |-> keepAwake, SleepAfterMinutes |-> sleepAfterMinutes]

\* a sleep_after_minutes outside validValues reaches neither the Config nor
\* the Manager, and the request is answered with the error at once
InvalidMinutesRejected ==
    /\ cfg.SleepAfterMinutes \in validValues
    /\ sleepAfterMinutes \in validValues
    /\ \A h \in DOMAIN reqs : reqs[h].minutes \in validValues

\* a request with 45 minutes has just been refused
RefusedRequest == out.op = "handleKeepAwake" /\ out.err = errInvalid

====
